---------------------------- MODULE Spec2Model ----------------------------
(***************************************************************************)
(* Model of the ITI trainee dashboard scraper (src/py_scripts).            *)
(*                                                                         *)
(* The specifications share the operators that model the code:            *)
(*   Spec      scrape_category.py: the module start, the scheduler         *)
(*             (__main__), the pool's worker processes running             *)
(*             parallel_scrape_over_categories, and the monitor process;   *)
(*   SpecAcc   one call of scrape_data (the Row Accumulator) against a     *)
(*             grid that may present any window on every read, with the    *)
(*             history needed to speak about static and stalled sources;   *)
(*             SpecAccLive is the same call with its progress;             *)
(*   SpecRead  one call of extract_visible_rows, attempt by attempt;       *)
(*   SpecXp    get_xpath on a parsed markup snapshot;                      *)
(*   SpecDist  scrape_districts.py: workers, folders, row-count check;     *)
(*   SpecCits  scrape_cits_certified.py: workers and output files;         *)
(*   SpecChk   the column check of its scrape_data;                        *)
(*   SpecOpt   one call of get_all_dropdown_options;                       *)
(*   SpecDisc  misc/get_all_districts.py: the discovery run;               *)
(*   SpecFilt  one call of the category worker with the slicers of its     *)
(*             session and the records the dashboard holds;                *)
(*   SpecQuit  the category run when driver.quit() can raise;              *)
(*   SpecKeys  seed, dispatch and increment of the Progress map of each    *)
(*             of the five targets.                                        *)
(*                                                                         *)
(* A data row is an identifier standing for the tuple of the texts of      *)
(* cells[1:] of one grid row: two rows are identical in every column       *)
(* exactly when their identifiers are equal.                               *)
(***************************************************************************)
EXTENDS Integers, Sequences, FiniteSets, TLC

\* ------------------------------------------------------------------ bounds
NumStates     == 2    \* len(states) in the model (36 in the source)
NumCategories == 2    \* len(categories) in the model (5 in the source)
PoolSize      == 2    \* worker processes in the model (Pool(5) in the source)
NumRows       == 2    \* distinct data rows the grid of SpecAcc can show
SchedRows     == 1    \* distinct data rows the grids of Spec can show
MaxWin        == 2    \* data rows in one visible window
NumDistricts  == 2    \* districts of the one state of the district target
MaxCardLen    == 2    \* characters of the 'Admitted Students' card text
DistRows      == 2    \* distinct data rows scrape_data can return there
NumCitsStates == 1    \* len(states) of the certification target in the model
MaxCell       == 1    \* largest value of a numeric cell of the certification grid
MaxChkRows    == 2    \* records of the frame the column check is run on
ReadsCap      == 7    \* the history counters of SpecAcc saturate here
MaxNodes      == 3    \* tags of a markup snapshot
NumAttrs      == 2    \* distinct attribute-and-text contents a tag can have
MaxArgv       == 3    \* largest len(sys.argv) a target is started with
MaxQuitFaults == 1    \* calls of driver.quit() that raise in one run (SpecQuit)
NumOptions    == 4    \* option labels a dropdown of the discovery run can hold

\* ------------------------------------------------------- program constants
RetryBudget == 5      \* scrape_data: retries = 5
ReadRetries == 5      \* extract_visible_rows: retries = 5
Header      == 0      \* the row the grid emits at index 0 of every read
Comma       == 10     \* the ',' of a card text, whose other characters are digits
OptionRetries == 5    \* get_all_dropdown_options: retries = 5
SelectAll     == 0    \* the label 'Select all' a dropdown shows among its options

VARIABLES
    \* scheduler (__main__) and shared manager objects
    main_pc, progress, total_tasks, lock, queue,
    \* monitor process (update_progress_bar); the bar it draws is display only
    mon_pc,
    \* worker processes of the pool
    wpc, wtask, wdf, wretries,
    \* what the running call has seen and done so far (reset when it returns)
    wvis, wacc,
    \* whether the handler of scrape_data (lines 209-215) has caught an exception
    \* during the running call
    wscrape_exc,
    \* the selections of the running call that have returned, in order, and the
    \* step whose exception reached the handler of the call ("none": no exception)
    wsel, wexc,
    \* per work unit: what happened to it (history of the run)
    runs, status, session, result,
    \* file system: output path -> persisted records
    files,
    \* one call of scrape_data (SpecAcc)
    acc_pc, acc_df, acc_retries, acc_ret,
    \* what its latest read returned (new_rows)
    acc_new,
    \* history of that call
    nreads, win0, static, noNew,
    \* district target (scrape_districts.py): scheduler, shared map, workers
    dmain, dqueue, dprog, dpc, dtask, ddf, dexp, dstage, dexc,
    \* its file system: folders, output files, improper_data records
    dirs, dout, dlog,
    \* its per-unit history: outcome, warning logged, how M compared with E
    dstatus, dwarn, dmis,
    \* certification target (scrape_cits_certified.py): scheduler, shared map,
    \* workers, folders, output files, flagged files, per-unit outcome
    cmain, cqueue, cprog, cpc, ctask, cdf, cexc, cdirs, cout, cflagged, cstatus,
    \* one call of its scrape_data from the end of the loop on: the frame, the
    \* footer cells read last, the flagged files written, what is returned
    chk_pc, chk_df, summations, chk_flags, chk_ret,
    \* one call of get_xpath: the parsed snapshot, the element, the result
    xp_pc, soup, xp_el, xp_ret,
    \* per scrape target, the module-level start: len(sys.argv), the position,
    \* the exit status (-1 while the process runs), the usage line printed
    sys_argv, mod_pc, exit_status, usage,
    \* one call of extract_visible_rows: its position, its budget, the row
    \* handles each attempt fetched, the exception of the latest attempt, what
    \* the call returned
    ev_pc, ev_retries, ev_fetched, ev_exc, ev_ret,
    \* one call of get_all_dropdown_options: the labels the dropdown holds, the
    \* labels of all_options, retries, previous_length, the exception that left
    \* the call, what it returned, and how many reads it has made
    op_pc, op_menu, op_all, op_retries, op_prev, op_exc, op_ret, op_reads,
    \* the discovery run (get_all_districts.py): scheduler, task list, shared
    \* map, workers (position, state, the value the call is about to return),
    \* per state the session, whether its try block raised, and the result the
    \* pool holds for it; merged_data and the content of all_districts.pkl
    gmain, gqueue, gprog, gpc, gtask, gval, gsession, graised, gresults,
    merged_data, pkl,
    \* one call of the category worker against a dashboard: its position, its
    \* unit, the units the dashboard holds a record of, the value each slicer is
    \* set to (0: not set), the rows read, the file written, the step that raised
    fl_pc, fl_task, fl_table, fl_slicer, fl_df, fl_files, fl_exc,
    \* the Progress map of any one target: the target that runs ("start": none
    \* yet), its shared map, its task list, the arguments each pool process
    \* holds and its position in the worker body, and the exception of an
    \* increment ("none": no exception)
    kmain, kprog, kqueue, ktask, kpc, kerr

schedVars == <<main_pc, progress, total_tasks, lock, queue, mon_pc,
               wpc, wtask, wdf, wretries, wvis, wacc, wscrape_exc, wsel, wexc,
               runs, status, session, result, files>>
accVars   == <<acc_pc, acc_df, acc_retries, acc_ret, acc_new, nreads, win0, static,
               noNew>>
distVars  == <<dmain, dqueue, dprog, dpc, dtask, ddf, dexp, dstage, dexc,
               dirs, dout, dlog, dstatus, dwarn, dmis>>
citsVars  == <<cmain, cqueue, cprog, cpc, ctask, cdf, cexc, cdirs, cout, cflagged,
               cstatus>>
chkVars   == <<chk_pc, chk_df, summations, chk_flags, chk_ret>>
xpVars    == <<xp_pc, soup, xp_el, xp_ret>>
argVars   == <<sys_argv, mod_pc, exit_status, usage>>
readVars  == <<ev_pc, ev_retries, ev_fetched, ev_exc, ev_ret>>
optVars   == <<op_pc, op_menu, op_all, op_retries, op_prev, op_exc, op_ret, op_reads>>
discVars  == <<gmain, gqueue, gprog, gpc, gtask, gval, gsession, graised, gresults,
               merged_data, pkl>>
filtVars  == <<fl_pc, fl_task, fl_table, fl_slicer, fl_df, fl_files, fl_exc>>
keyVars   == <<kmain, kprog, kqueue, ktask, kpc, kerr>>
tailVars  == <<filtVars, keyVars>>
lateVars  == <<xpVars, argVars, readVars, optVars, discVars, tailVars>>
extVars   == <<distVars, citsVars, chkVars, lateVars>>
vars      == <<schedVars, accVars, extVars>>

\* ------------------------------------------------------------ sequences
RECURSIVE SeqsUpTo(_, _)
SeqsUpTo(S, n) ==
    IF n = 0 THEN {<<>>}
    ELSE LET shorter == SeqsUpTo(S, n - 1)
         IN  shorter \cup {Append(s, x) : s \in {t \in shorter : Len(t) = n - 1}, x \in S}

Range(s) == {s[i] : i \in 1..Len(s)}

NoDuplicates(s) == \A i, j \in 1..Len(s) : s[i] = s[j] => i = j

Min(a, b) == IF a < b THEN a ELSE b

\* Python's None where a row list or a DataFrame is expected
NoneRows == <<-1>>

\* list[1:]
DropFirst(s) == IF Len(s) <= 1 THEN <<>> ELSE SubSeq(s, 2, Len(s))

\* ------------------------------------------------------------- the grid
\* the visible windows of a grid that holds the data rows 1..n
Windows(n) == SeqsUpTo(1..n, MaxWin)
\* What find_elements("div[role='row']...") can return: nothing at all, or the
\* header row followed by the data rows of the visible window.
GridReads(n) == {<<>>} \cup {<<Header>> \o w : w \in Windows(n)}
DomReads  == GridReads(SchedRows)
AccReads  == GridReads(NumRows)

\* ------------------------------------------------- extract_visible_rows
\* nstale: how many of the coming attempts hit StaleElementReferenceException;
\* dom: the row handles the first attempt that completes fetches.
RECURSIVE ExtractAttempt(_, _, _)
ExtractAttempt_KeepsIndex0(retries, nstale, dom) ==
    IF retries > 0
    THEN IF nstale > 0 THEN ExtractAttempt(retries - 1, nstale - 1, dom)
                       ELSE dom
    ELSE NoneRows

ExtractAttempt(retries, nstale, dom) ==
    IF retries > 0
    THEN IF nstale > 0 THEN ExtractAttempt(retries - 1, nstale - 1, dom)
                       ELSE DropFirst(dom)
    ELSE NoneRows

ExtractVisibleRows(nstale, dom) == ExtractAttempt(ReadRetries, nstale, dom)

\* the stale attempts a read is tried with: none, all but the last, all
StaleCounts == {0, ReadRetries - 1, ReadRetries}

\* ---------------------------------------------------------- scrape_data
\* DataFrame.drop_duplicates(): keeps the first occurrence, in order
RECURSIVE DropDuplicates(_)
DropDuplicates_KeepsAll(s) == s

DropDuplicates(s) ==
    IF s = <<>> THEN <<>>
    ELSE LET front == DropDuplicates(SubSeq(s, 1, Len(s) - 1))
             last  == s[Len(s)]
         IN  IF last \in Range(front) THEN front ELSE Append(front, last)

\* df.iloc[-n:]: the last n records; the whole frame when n = 0 or n >= len(df)
ILocTail(df, n) ==
    IF n = 0 \/ n >= Len(df) THEN df ELSE SubSeq(df, Len(df) - n + 1, Len(df))

\* pd.DataFrame(new_rows, columns = columns): None gives an empty frame
NewDf(new_rows) == IF new_rows = NoneRows THEN <<>> ELSE new_rows

\* the condition of line 197
Stalled(df, new_df) == df # <<>> /\ ILocTail(df, Len(new_df)) = new_df

\* one iteration of the while loop, lines 194-202
NextRetries_NeverDecrements(df, retries, new_rows) == RetryBudget

NextRetries(df, retries, new_rows) ==
    IF Stalled(df, NewDf(new_rows)) THEN retries - 1 ELSE RetryBudget

NextDf_NewRowsFirst(df, new_rows) == DropDuplicates(NewDf(new_rows) \o df)

NextDf(df, new_rows) == DropDuplicates(df \o NewDf(new_rows))

\* ----------------------------------------------------- filter dimensions
states     == [i \in 1..NumStates |-> i]
categories == [i \in 1..NumCategories |-> i]
years      == <<2015>>

\* every unit the run can know of: the state of the per-unit history variables
Units == Range(states) \X Range(categories) \X Range(years)

NoTask == <<>>

\* [(state, category, year, progress, lock) for state in states
\*                        for category in categories for year in years]
TaskAt(i) ==
    LET nc == Len(categories)
        ny == Len(years)
    IN  <<states[((i - 1) \div (nc * ny)) + 1],
          categories[(((i - 1) \div ny) % nc) + 1],
          years[((i - 1) % ny) + 1]>>

TaskList_ZipsDimensions ==
    [i \in 1..Min(Len(states), Len(categories)) |-> <<states[i], categories[i], years[1]>>]

TaskList == [i \in 1..(Len(states) * Len(categories) * Len(years)) |-> TaskAt(i)]

\* {(state, category, year): 0 for state in states for category in categories
\*                              for year in years}
ProgressSeed ==
    [k \in {<<s, c, y>> : s \in Range(states), c \in Range(categories), y \in Range(years)}
       |-> 0]

TotalTasks == Len(states) * Len(categories) * Len(years)

\* progress[(state, category, year)] of the worker's own arguments
ProgressKey(task) == <<task[1], task[2], task[3]>>

\* f'{output_folder}/{year}/{state}_{year}_{category}.csv'
OutputPath(task) == <<task[3], task[1], task[3], task[2]>>

\* df['State'] = state; df['Category'] = category; df['Year'] = year
AddColumns(df, task) == [i \in 1..Len(df) |-> <<df[i], task[1], task[2], task[3]>>]

\* sum(progress.values())
RECURSIVE SumOver(_, _)
SumOver(f, S) ==
    IF S = {} THEN 0
    ELSE LET k == CHOOSE x \in S : TRUE IN f[k] + SumOver(f, S \ {k})

ProgressSum == SumOver(progress, DOMAIN progress)

Workers == 1..PoolSize

\* ------------------------------------ district target: scrape_districts.py
\* all_districts.pkl: state -> its districts
dictionary == [s \in {1} |-> [i \in 1..NumDistricts |-> i]]
years_d    == <<2014>>

\* the keys of the progress dict: (year, state, district)
DistUnits ==
    {<<y, st, d>> : y \in Range(years_d), st \in DOMAIN dictionary,
                    d \in 1..NumDistricts}

\* [(state, district, year, progress, lock) for year in years
\*      for state in dictionary.keys() for district in dictionary[state]]
TaskList_d == [i \in 1..NumDistricts |-> <<1, dictionary[1][i], years_d[1]>>]

ProgressSeed_d == [k \in DistUnits |-> 0]

\* progress[(year, state, district)] of the worker's own arguments
ProgressKey_ArgumentOrder(task) == <<task[1], task[2], task[3]>>

ProgressKey_d(task) == <<task[3], task[1], task[2]>>

\* the four folders create_folder_if_not_exists is called for, in call order:
\* improper_data, improper_data/{year}, {output_folder}, {output_folder}/{year}
FolderAt(stage, task) ==
    CASE stage = 1 -> <<"improper_data">>
      [] stage = 2 -> <<"improper_data", task[3]>>
      [] stage = 3 -> <<"output_folder">>
      [] stage = 4 -> <<"output_folder", task[3]>>

\* os.makedirs creates the missing parents with the folder
WithParents(folder) == {SubSeq(folder, 1, n) : n \in 1..Len(folder)}

\* f'improper_data/{year}/{year}_{state}_{district}.csv'
ImproperPath(task) == <<"improper_data", task[3], task[3], task[1], task[2]>>

\* f'{output_folder}/{year}/{year}_{state}_{district}.csv'
OutputPath_d(task) == <<"output_folder", task[3], task[3], task[1], task[2]>>

\* pd.DataFrame([f'{year}_{state}_{district}', len(df), expected_data])
ImproperRecord(task, df, expected_data) ==
    <<(<<task[3], task[1], task[2]>>), Len(df), expected_data>>

\* df['Year'] = year; df['State'] = state; df['District'] = district
AddColumns_d(df, task) == [i \in 1..Len(df) |-> <<df[i], task[3], task[1], task[2]>>]

\* The text of the second svg.card: digits and thousands separators
CardTexts == SeqsUpTo({1, 2, Comma}, MaxCardLen)

\* int() of a digit string; -1 stands for ValueError (no digit at all)
RECURSIVE IntOf(_)
IntOf(digits) ==
    IF digits = <<>> THEN 0
    ELSE 10 * IntOf(SubSeq(digits, 1, Len(digits) - 1)) + digits[Len(digits)]

IsDigit(c) == c # Comma

\* get_expected_data: the pieces between the commas are joined, then int()
GetExpectedData(text) ==
    LET joined == SelectSeq(text, IsDigit)
    IN  IF joined = <<>> THEN -1 ELSE IntOf(joined)

\* what scrape_data returns: None, or a non-empty frame without duplicates
ScrapeResults ==
    {NoneRows} \cup {r \in SeqsUpTo(1..DistRows, DistRows) : r # <<>> /\ NoDuplicates(r)}

\* ----------------------- certification target: scrape_cits_certified.py
states_c           == [i \in 1..NumCitsStates |-> i]
all_cits_certified == <<"No", "Yes">>

\* the keys of the progress dict: (state, cits_certified)
CitsUnits == Range(states_c) \X Range(all_cits_certified)

\* [(state, cits_certified, progress, lock) for state in states
\*                              for cits_certified in all_cits_certified]
TaskList_c ==
    [i \in 1..(Len(states_c) * Len(all_cits_certified)) |->
        <<states_c[((i - 1) \div Len(all_cits_certified)) + 1],
          all_cits_certified[((i - 1) % Len(all_cits_certified)) + 1]>>]

ProgressSeed_c == [k \in CitsUnits |-> 0]

\* progress[(state, cits_certified)] of the worker's own arguments
ProgressKey_c(task) == <<task[1], task[2]>>

\* f'{output_folder}/cits_certified_{state}.csv'
OutputPath_StateAndCertified(task) == <<"output_folder", "cits_certified", task[1], task[2]>>

OutputPath_c(task) == <<"output_folder", "cits_certified", task[1]>>

\* the three files scrape_data writes on a column mismatch:
\* f'total_units_improper_{state}.csv' and its two siblings
FlagKinds == {"total_units", "total_post_sanctioned", "total_position_filled"}

FlagPath(kind, state) == <<kind, "improper", state>>

\* The numeric columns of the frame (lines 251-254 convert them), in column
\* order; a record of the frame is modelled by its values in these columns.
NumericColumns == <<"Total_Units", "Total_Post_Sanctioned", "Total_Position_Filled",
                    "Vacancy">>

\* the columns lines 257-267 compare, with the flagged file of each
CheckedColumns == <<"total_units", "total_post_sanctioned", "total_position_filled">>

NumericRows == [1..Len(NumericColumns) -> 0..MaxCell]

\* the frames the loop can leave: non-empty, without duplicates
ChkFrames == {f \in SeqsUpTo(NumericRows, MaxChkRows) : f # <<>> /\ NoDuplicates(f)}

\* the texts of one footer cell: digits and thousands separators
FootTexts == SeqsUpTo({1, Comma}, MaxCardLen)

\* summations[3], ..., summations[6]: the footer cells under the numeric columns
FootRows == [1..Len(NumericColumns) -> FootTexts]

\* df[column].sum()
RECURSIVE ColumnSum(_, _)
ColumnSum(df, c) ==
    IF df = <<>> THEN 0 ELSE df[1][c] + ColumnSum(Tail(df), c)

\* float(summations[i].replace(',', '')); -1 stands for ValueError
FootValue(text) == GetExpectedData(text)

\* lines 257-267 on the checked columns 1..n, in order: the flagged files
\* written before the first footer cell that does not parse, if there is one
RECURSIVE ColumnChecks(_, _, _)
ColumnChecks(df, foot, n) ==
    IF n = 0 THEN [flags |-> {}, raised |-> FALSE]
    ELSE LET before == ColumnChecks(df, foot, n - 1)
         IN  IF before.raised THEN before
             ELSE IF FootValue(foot[n]) = -1 THEN [before EXCEPT !.raised = TRUE]
             ELSE IF ColumnSum(df, n) # FootValue(foot[n])
                  THEN [before EXCEPT !.flags = @ \cup {CheckedColumns[n]}]
                  ELSE before

\* df['Cits_Certified'] = cits_certified
AddColumns_c(df, task) == [i \in 1..Len(df) |-> <<df[i], task[2]>>]

\* ------------------------------------------- Locator Resolver: get_xpath
\* A markup snapshot (the BeautifulSoup object of initialize_dropdowns, line
\* 103): the tags are 1..n in document order, 0 is the BeautifulSoup object
\* itself; par[i] is the parent of tag i, tag[i] its name, attrs[i] what else
\* its markup holds (its attributes and its text).
Tags  == {"div", "span"}
Attrs == 1..NumAttrs

EmptySoup == [par |-> <<>>, tag |-> <<>>, attrs |-> <<>>]

Parents(n) == {p \in [1..n -> 0..(n - 1)] : \A i \in 1..n : p[i] < i}

Snapshots ==
    UNION {{[par |-> p, tag |-> t, attrs |-> a] :
               p \in Parents(n), t \in [1..n -> Tags], a \in [1..n -> Attrs]} :
           n \in 1..MaxNodes}

\* the child tags of p, in document order
Children(s, p) == SelectSeq([i \in 1..Len(s.par) |-> i], LAMBDA i : s.par[i] = p)

\* parent.find_all(child.name, recursive = False)
FindAllNamed(s, p, name) == SelectSeq(Children(s, p), LAMBDA i : s.tag[i] = name)

\* Tag.__eq__, which list.index compares with: the same object, or the same
\* name, the same attributes and pairwise equal contents
RECURSIVE TagEq(_, _, _)
TagEq_Identity(s, i, j) == i = j

TagEq(s, i, j) ==
    \/ i = j
    \/ /\ s.tag[i] = s.tag[j]
       /\ s.attrs[i] = s.attrs[j]
       /\ LET ci == Children(s, i)
              cj == Children(s, j)
          IN  /\ Len(ci) = Len(cj)
              /\ \A k \in 1..Len(ci) : TagEq(s, ci[k], cj[k])

\* siblings.index(child): the position (from 0) of the first equal item
ListIndex(s, siblings, child) ==
    (CHOOSE k \in 1..Len(siblings) :
        /\ TagEq(s, siblings[k], child)
        /\ \A m \in 1..(k - 1) : ~TagEq(s, siblings[m], child)) - 1

\* one component of lines 82-86; index 0 stands for a segment without index
Component(s, child) ==
    LET siblings == FindAllNamed(s, s.par[child], s.tag[child])
    IN  IF Len(siblings) > 1
        THEN [name |-> s.tag[child], index |-> ListIndex(s, siblings, child) + 1]
        ELSE [name |-> s.tag[child], index |-> 0]

\* lines 81-89: the components from the element up to the top, reversed
RECURSIVE Components(_, _)
Components(s, child) ==
    IF child = 0 THEN <<>>
    ELSE Append(Components(s, s.par[child]), Component(s, child))

\* Python's None where an XPath is expected
NoneXpath == <<[name |-> "None", index |-> 0]>>

\* get_xpath(element); the element 0 stands for None
GetXpath(s, element) == IF element = 0 THEN NoneXpath ELSE Components(s, element)

\* By.XPATH with the path of get_xpath (lines 231 and 258): a step selects,
\* under every context node, the children of the name, or the index-th one
Step(s, ctx, seg) ==
    UNION {LET named == FindAllNamed(s, p, seg.name)
           IN  IF seg.index = 0 THEN Range(named)
               ELSE IF seg.index <= Len(named) THEN {named[seg.index]} ELSE {} :
           p \in ctx}

RECURSIVE Evaluate(_, _, _)
Evaluate(s, ctx, path) ==
    IF path = <<>> THEN ctx ELSE Evaluate(s, Step(s, ctx, Head(path)), Tail(path))


\* ------------------------------------------- the start of a target's module
\* the scrape targets modelled here
Targets == {"category", "districts", "cits_certified"}

\* the len(sys.argv) command lines give: the script name and up to
\* MaxArgv - 1 arguments
ArgvLengths == 1..MaxArgv

\* --------------------- district discovery: misc/get_all_districts.py
\* the option labels a dropdown can hold, 'Select all' apart
Options == 1..NumOptions

\* sorted(list(set(...))): the labels in ascending order
RECURSIVE SortSet(_)
SortSet(S) ==
    IF S = {} THEN <<>>
    ELSE LET least == CHOOSE x \in S : \A y \in S : x <= y
         IN  <<least>> \o SortSet(S \ {least})

\* the declared states of the discovery run
states_g == [i \in 1..NumStates |-> i]

\* no value yet, and an exception in place of a value
NotYet    == <<-1>>
RaisedOut == <<-2>>

\* what get_all_dropdown_options can return: a sorted list of at least three
\* labels (line 281 was passed in its last turn)
DiscoveredLists == {SortSet(S) : S \in {T \in SUBSET Options : Cardinality(T) >= 3}}

\* scrape_districts.py, lines 416 and 425: the units the district scrape
\* schedules from the mapping it loads, for the states 1..n in key order
RECURSIVE TasksFrom(_, _)
TasksFrom(dict, n) ==
    IF n = 0 THEN <<>>
    ELSE TasksFrom(dict, n - 1) \o
         (IF n \in DOMAIN dict
          THEN [i \in 1..Len(dict[n]) |-> <<n, dict[n][i], years_d[1]>>]
          ELSE <<>>)

\* ------------------------------------ the Progress keys of every target
\* scrape_course_duration.py: the dimensions, the task list of line 514, the
\* seed of line 507 and the key of line 500
states_cd        == [i \in 1..NumStates |-> i]
years_cd         == <<2014>>
course_durations == <<"1 Year", "2 Year">>

\* [(state, year, course_duration, progress, lock) for year in years
\*                   for state in states for course_duration in course_durations]
TaskList_cd ==
    LET ns == Len(states_cd)
        nd == Len(course_durations)
    IN  [i \in 1..(Len(years_cd) * ns * nd) |->
            <<states_cd[(((i - 1) \div nd) % ns) + 1],
              years_cd[((i - 1) \div (ns * nd)) + 1],
              course_durations[((i - 1) % nd) + 1]>>]

\* {(year, state, course_duration): 0 for year in years for state in states
\*                                     for course_duration in course_durations}
ProgressSeed_cd ==
    [k \in Range(years_cd) \X Range(states_cd) \X Range(course_durations) |-> 0]

\* progress[(year, state, course_duration)] of the worker's own arguments
ProgressKey_cd(task) == <<task[2], task[1], task[3]>>

\* get_all_districts.py: [(state, progress, lock) for state in states], the
\* seed {(state): 0 for state in states} and the key progress[(state)]
TaskList_g == [i \in 1..Len(states_g) |-> <<states_g[i]>>]

ProgressSeed_g == [k \in Range(states_g) |-> 0]

ProgressKey_g(task) == task[1]

\* the five targets with a Progress map
KeyTargets == {"category", "cits_certified", "course_duration", "districts",
               "get_all_districts"}

\* the map __main__ of target t seeds, and the task list it hands to the pool
SeedOf(t) ==
    CASE t = "category"          -> ProgressSeed
      [] t = "cits_certified"    -> ProgressSeed_c
      [] t = "course_duration"   -> ProgressSeed_cd
      [] t = "districts"         -> ProgressSeed_d
      [] t = "get_all_districts" -> ProgressSeed_g

TasksOf(t) ==
    CASE t = "category"          -> TaskList
      [] t = "cits_certified"    -> TaskList_c
      [] t = "course_duration"   -> TaskList_cd
      [] t = "districts"         -> TaskList_d
      [] t = "get_all_districts" -> TaskList_g

\* the key the finally block of target t's worker increments
KeyOf(t, task) ==
    CASE t = "category"          -> ProgressKey(task)
      [] t = "cits_certified"    -> ProgressKey_c(task)
      [] t = "course_duration"   -> ProgressKey_cd(task)
      [] t = "districts"         -> ProgressKey_d(task)
      [] t = "get_all_districts" -> ProgressKey_g(task)

\* ------------------------------------------- the dashboard and its slicers
Slicers == {"STATE_NAME", "ACADEMIC_SESSION", "CATEGORY"}

\* clear_filters: no slicer holds a value
Cleared == [f \in Slicers |-> 0]

\* the records the grid shows: those of the table that agree with every
\* slicer that is set; a record is named by the unit it belongs to
Shown(table, slicer) ==
    {u \in table : /\ slicer["STATE_NAME"] \in {0, u[1]}
                   /\ slicer["CATEGORY"] \in {0, u[2]}
                   /\ slicer["ACADEMIC_SESSION"] \in {0, u[3]}}

\* the same records in the order of the grid
ShownRows(table, slicer) == SelectSeq(TaskList, LAMBDA u : u \in Shown(table, slicer))

\* ------------------------------------------------------------------ Init
Init ==
    /\ main_pc = "start"
    /\ progress = [k \in {} |-> 0]
    /\ total_tasks = 0
    /\ lock = 0
    /\ queue = <<>>
    /\ mon_pc = "off"
    /\ wpc = [w \in Workers |-> "idle"]
    /\ wtask = [w \in Workers |-> NoTask]
    /\ wdf = [w \in Workers |-> <<>>]
    /\ wretries = [w \in Workers |-> 0]
    /\ wvis = [w \in Workers |-> "unread"]
    /\ wacc = [w \in Workers |-> FALSE]
    /\ wscrape_exc = [w \in Workers |-> FALSE]
    /\ wsel = [w \in Workers |-> <<>>]
    /\ wexc = [w \in Workers |-> "none"]
    /\ runs = [u \in Units |-> 0]
    /\ status = [u \in Units |-> "Pending"]
    /\ session = [u \in Units |-> "none"]
    /\ result = [u \in Units |-> "none"]
    /\ files = [p \in {} |-> <<>>]
    /\ acc_pc = "loop"
    /\ acc_df = <<>>
    /\ acc_retries = RetryBudget
    /\ acc_ret = NoneRows
    /\ acc_new = <<>>
    /\ nreads = 0
    /\ win0 = NoneRows
    /\ static = TRUE
    /\ noNew = 0
    /\ dmain = "start"
    /\ dqueue = <<>>
    /\ dprog = [k \in {} |-> 0]
    /\ dpc = [w \in Workers |-> "idle"]
    /\ dtask = [w \in Workers |-> NoTask]
    /\ ddf = [w \in Workers |-> <<>>]
    /\ dexp = [w \in Workers |-> 0]
    /\ dstage = [w \in Workers |-> 0]
    /\ dexc = [w \in Workers |-> "none"]
    /\ dirs = {}
    /\ dout = [p \in {} |-> <<>>]
    /\ dlog = [p \in {} |-> <<>>]
    /\ dstatus = [u \in DistUnits |-> "Pending"]
    /\ dwarn = {}
    /\ dmis = [u \in DistUnits |-> "unknown"]
    /\ cmain = "start"
    /\ cqueue = <<>>
    /\ cprog = [k \in {} |-> 0]
    /\ cpc = [w \in Workers |-> "idle"]
    /\ ctask = [w \in Workers |-> NoTask]
    /\ cdf = [w \in Workers |-> <<>>]
    /\ cexc = [w \in Workers |-> "none"]
    /\ cdirs = {}
    /\ cout = [p \in {} |-> <<>>]
    /\ cflagged = {}
    /\ cstatus = [u \in CitsUnits |-> "Pending"]
    /\ chk_pc = "loop"
    /\ chk_df = <<>>
    /\ summations = <<>>
    /\ chk_flags = {}
    /\ chk_ret = "none"
    /\ xp_pc = "parse"
    /\ soup = EmptySoup
    /\ xp_el = 0
    /\ xp_ret = <<>>
    /\ sys_argv = [t \in Targets |-> 0]
    /\ mod_pc = [t \in Targets |-> "import"]
    /\ exit_status = [t \in Targets |-> -1]
    /\ usage = [t \in Targets |-> FALSE]
    /\ ev_pc = "loop"
    /\ ev_retries = ReadRetries
    /\ ev_fetched = <<>>
    /\ ev_exc = "none"
    /\ ev_ret = <<>>
    /\ op_pc = "start"
    /\ op_menu = {}
    /\ op_all = {}
    /\ op_retries = OptionRetries
    /\ op_prev = 0
    /\ op_exc = "none"
    /\ op_ret = <<>>
    /\ op_reads = 0
    /\ gmain = "start"
    /\ gqueue = <<>>
    /\ gprog = [k \in {} |-> 0]
    /\ gpc = [w \in Workers |-> "idle"]
    /\ gtask = [w \in Workers |-> 0]
    /\ gval = [w \in Workers |-> NotYet]
    /\ gsession = [st \in Range(states_g) |-> "none"]
    /\ graised = [st \in Range(states_g) |-> FALSE]
    /\ gresults = [st \in Range(states_g) |-> NotYet]
    /\ merged_data = [k \in {} |-> <<>>]
    /\ pkl = [k \in {} |-> <<>>]
    /\ fl_pc = "open"
    /\ fl_task = NoTask
    /\ fl_table = {}
    /\ fl_slicer = Cleared
    /\ fl_df = <<>>
    /\ fl_files = [p \in {} |-> <<>>]
    /\ fl_exc = "none"
    /\ kmain = "start"
    /\ kprog = [k \in {} |-> 0]
    /\ kqueue = <<>>
    /\ ktask = [w \in Workers |-> NoTask]
    /\ kpc = [w \in Workers |-> "idle"]
    /\ kerr = "none"

\* ------------------------------------------------------------- __main__
unitVars   == <<runs, status, session, result>>
workerVars == <<wpc, wtask, wdf, wretries, wvis, wacc, wscrape_exc, wsel, wexc>>

\* lines 29-33 of every scrape target, run when the module is loaded, before
\* __main__: if len(sys.argv) != 2, the usage line and sys.exit(1)
ModuleStart_NoCheck(t) ==
    /\ mod_pc[t] = "import"
    /\ \E n \in ArgvLengths :
         /\ sys_argv' = [sys_argv EXCEPT ![t] = n]
         /\ mod_pc' = [mod_pc EXCEPT ![t] = "main"]
         /\ UNCHANGED <<usage, exit_status>>
    /\ UNCHANGED <<schedVars, accVars, distVars, citsVars, chkVars, xpVars, readVars,
                   optVars, discVars, tailVars>>

ModuleStart(t) ==
    /\ mod_pc[t] = "import"
    /\ \E n \in ArgvLengths :
         /\ sys_argv' = [sys_argv EXCEPT ![t] = n]
         /\ IF n # 2
            THEN /\ usage' = [usage EXCEPT ![t] = TRUE]
                 /\ exit_status' = [exit_status EXCEPT ![t] = 1]
                 /\ mod_pc' = [mod_pc EXCEPT ![t] = "exited"]
            ELSE /\ mod_pc' = [mod_pc EXCEPT ![t] = "main"]
                 /\ UNCHANGED <<usage, exit_status>>
    /\ UNCHANGED <<schedVars, accVars, distVars, citsVars, chkVars, xpVars, readVars,
                   optVars, discVars, tailVars>>

\* lines 426-436: the shared map and lock, the task count, the monitor process
MainSeed ==
    /\ mod_pc["category"] = "main"
    /\ main_pc = "start"
    /\ progress' = ProgressSeed
    /\ total_tasks' = TotalTasks
    /\ mon_pc' = "polling"
    /\ main_pc' = "pool"
    /\ UNCHANGED <<lock, queue, workerVars, unitVars, files, accVars, extVars>>

\* lines 438-439: the task list is handed to the pool
MainStarmap ==
    /\ main_pc = "pool"
    /\ queue' = TaskList
    /\ main_pc' = "wait"
    /\ UNCHANGED <<progress, total_tasks, lock, mon_pc, workerVars, unitVars,
                   files, accVars, extVars>>

\* starmap returns once every task has finished; it re-raises a task's exception
MainStarmapReturns ==
    /\ main_pc = "wait"
    /\ queue = <<>>
    /\ \A w \in Workers : wpc[w] = "idle"
    /\ main_pc' = IF \E u \in Units : result[u] = "raised" THEN "aborted" ELSE "join"
    /\ UNCHANGED <<progress, total_tasks, lock, queue, mon_pc, workerVars,
                   unitVars, files, accVars, extVars>>

\* line 441: progress_bar_process.join()
MainJoin ==
    /\ main_pc = "join"
    /\ mon_pc = "closed"
    /\ main_pc' = "done"
    /\ UNCHANGED <<progress, total_tasks, lock, queue, mon_pc, workerVars,
                   unitVars, files, accVars, extVars>>

\* -------------------------------------------------- update_progress_bar
\* lines 173-176: one turn of the loop reads the map, redraws the bar and sleeps
MonitorPoll ==
    /\ mon_pc = "polling"
    /\ ProgressSum < total_tasks
    /\ UNCHANGED vars

\* lines 173 and 177: the sum has reached the total, the loop is left
MonitorClose ==
    /\ mon_pc = "polling"
    /\ ~(ProgressSum < total_tasks)
    /\ mon_pc' = "closed"
    /\ UNCHANGED <<main_pc, progress, total_tasks, lock, queue, workerVars,
                   unitVars, files, accVars, extVars>>

\* ------------------------------------ parallel_scrape_over_categories
\* worker w moves to position pc
Goto(w, pc) == wpc' = [wpc EXCEPT ![w] = pc]

\* An exception raised inside the try block, lines 353-407: the handler of
\* lines 409-410 logs it, and control reaches the finally block.
RaiseInTry_KeepsRunning(w, outcome) ==
    /\ Goto(w, "quit")
    /\ UNCHANGED status
    /\ wexc' = [wexc EXCEPT ![w] = wpc[w]]

RaiseInTry(w, outcome) ==
    /\ Goto(w, "quit")
    /\ status' = [status EXCEPT ![wtask[w]] = outcome]
    /\ wexc' = [wexc EXCEPT ![w] = wpc[w]]

\* a pool process takes the next task of the list and calls the worker body
TakeTask(w) ==
    /\ wpc[w] = "idle"
    /\ queue # <<>>
    /\ wtask' = [wtask EXCEPT ![w] = Head(queue)]
    /\ queue' = Tail(queue)
    /\ runs' = [runs EXCEPT ![Head(queue)] = @ + 1]
    /\ status' = [status EXCEPT ![Head(queue)] = "Running"]
    /\ Goto(w, "create")
    /\ UNCHANGED <<main_pc, progress, total_tasks, lock, mon_pc, wdf, wretries,
                   wvis, wacc, wscrape_exc, session, result, files, accVars, extVars, wsel, wexc>>

\* lines 345-351, before the try block: webdriver.Chrome(...) opens the session
\* or raises, and nothing in the worker body catches that
CreateSession(w) ==
    /\ wpc[w] = "create"
    /\ \E ok \in BOOLEAN :
         IF ok
         THEN /\ session' = [session EXCEPT ![wtask[w]] = "open"]
              /\ Goto(w, "setup")
              /\ UNCHANGED <<wtask, result, status>>
         ELSE /\ result' = [result EXCEPT ![wtask[w]] = "raised"]
              /\ status' = [status EXCEPT ![wtask[w]] = "Failed"]
              /\ Goto(w, "idle")
              /\ wtask' = [wtask EXCEPT ![w] = NoTask]
              /\ UNCHANGED session
    /\ UNCHANGED <<main_pc, progress, total_tasks, lock, queue, mon_pc, wdf,
                   wretries, wvis, wacc, wscrape_exc, runs, files, accVars, extVars, wsel, wexc>>

\* lines 354-365: navigation, the wait for the page, clear_filters and
\* initialize_dropdowns (locator resolution)
Setup(w) ==
    /\ wpc[w] = "setup"
    /\ \E ok \in BOOLEAN :
         IF ok THEN Goto(w, "sel_state") /\ UNCHANGED <<status, wexc>>
               ELSE RaiseInTry(w, "Failed")
    /\ UNCHANGED <<main_pc, progress, total_tasks, lock, queue, mon_pc, wtask, wdf,
                   wretries, wvis, wacc, wscrape_exc, runs, session, result, files, accVars, extVars, wsel>>

\* line 368: search_select_from_dropdown catches ElementClickIntercepted,
\* NoSuchElement and Timeout itself and returns; anything else propagates
SelectState_SkipsYear(w) ==
    /\ wpc[w] = "sel_state"
    /\ \E outcome \in {"selected", "caught", "raised"} :
         IF outcome = "raised"
         THEN RaiseInTry(w, "Failed") /\ UNCHANGED wsel
         ELSE /\ Goto(w, "sel_category")
              /\ wsel' = [wsel EXCEPT ![w] = Append(@, "STATE")]
              /\ UNCHANGED <<status, wexc>>
    /\ UNCHANGED <<main_pc, progress, total_tasks, lock, queue, mon_pc, wtask, wdf,
                   wretries, wvis, wacc, wscrape_exc, runs, session, result, files, accVars, extVars>>

SelectState(w) ==
    /\ wpc[w] = "sel_state"
    /\ \E outcome \in {"selected", "caught", "raised"} :
         IF outcome = "raised"
         THEN RaiseInTry(w, "Failed") /\ UNCHANGED wsel
         ELSE /\ Goto(w, "sel_year")
              /\ wsel' = [wsel EXCEPT ![w] = Append(@, "STATE")]
              /\ UNCHANGED <<status, wexc>>
    /\ UNCHANGED <<main_pc, progress, total_tasks, lock, queue, mon_pc, wtask, wdf,
                   wretries, wvis, wacc, wscrape_exc, runs, session, result, files, accVars, extVars>>

\* line 373: select_option_from_dropdown has no handler of its own
SelectYear_Uncaught(w) ==
    /\ wpc[w] = "sel_year"
    /\ \E ok \in BOOLEAN :
         IF ok
         THEN /\ Goto(w, "sel_category")
              /\ wsel' = [wsel EXCEPT ![w] = Append(@, "YEAR")]
              /\ UNCHANGED <<status, wexc, result, wtask>>
         ELSE /\ result' = [result EXCEPT ![wtask[w]] = "raised"]
              /\ status' = [status EXCEPT ![wtask[w]] = "Failed"]
              /\ Goto(w, "idle")
              /\ wtask' = [wtask EXCEPT ![w] = NoTask]
              /\ wsel' = [wsel EXCEPT ![w] = <<>>]
              /\ UNCHANGED wexc
    /\ UNCHANGED <<main_pc, progress, total_tasks, lock, queue, mon_pc, wdf,
                   wretries, wvis, wacc, wscrape_exc, runs, session, files, accVars, extVars>>

SelectYear(w) ==
    /\ wpc[w] = "sel_year"
    /\ \E ok \in BOOLEAN :
         IF ok
         THEN /\ Goto(w, "sel_category")
              /\ wsel' = [wsel EXCEPT ![w] = Append(@, "YEAR")]
              /\ UNCHANGED <<status, wexc>>
         ELSE RaiseInTry(w, "Failed") /\ UNCHANGED wsel
    /\ UNCHANGED <<main_pc, progress, total_tasks, lock, queue, mon_pc, wtask, wdf,
                   wretries, wvis, wacc, wscrape_exc, runs, session, result, files, accVars, extVars>>

\* line 378
SelectCategory(w) ==
    /\ wpc[w] = "sel_category"
    /\ \E ok \in BOOLEAN :
         IF ok
         THEN /\ Goto(w, "check")
              /\ wsel' = [wsel EXCEPT ![w] = Append(@, "CATEGORY")]
              /\ UNCHANGED <<status, wexc>>
         ELSE RaiseInTry(w, "Failed") /\ UNCHANGED wsel
    /\ UNCHANGED <<main_pc, progress, total_tasks, lock, queue, mon_pc, wtask, wdf,
                   wretries, wvis, wacc, wscrape_exc, runs, session, result, files, accVars, extVars>>

\* lines 386-388: len(extract_visible_rows(driver)) == 0 raises the skip
\* exception; len(None) (every attempt stale) raises TypeError
CheckVisible_NeverSkips(w) ==
    /\ wpc[w] = "check"
    /\ \E nstale \in StaleCounts, dom \in DomReads :
         LET rows == ExtractVisibleRows(nstale, dom)
         IN  IF rows = NoneRows
             THEN /\ wvis' = [wvis EXCEPT ![w] = "none"]
                  /\ RaiseInTry(w, "Failed")
             ELSE /\ wvis' = [wvis EXCEPT ![w] = IF Len(rows) = 0 THEN "empty" ELSE "rows"]
                  /\ Goto(w, "call_scrape")
                  /\ UNCHANGED <<status, wexc>>
    /\ UNCHANGED <<main_pc, progress, total_tasks, lock, queue, mon_pc, wtask, wdf,
                   wretries, wacc, wscrape_exc, runs, session, result, files, accVars, extVars, wsel>>

CheckVisible(w) ==
    /\ wpc[w] = "check"
    /\ \E nstale \in StaleCounts, dom \in DomReads :
         LET rows == ExtractVisibleRows(nstale, dom)
         IN  IF rows = NoneRows
             THEN /\ wvis' = [wvis EXCEPT ![w] = "none"]
                  /\ RaiseInTry(w, "Failed")
             ELSE IF Len(rows) = 0
             THEN /\ wvis' = [wvis EXCEPT ![w] = "empty"]
                  /\ RaiseInTry(w, "EmptySkipped")
             ELSE /\ wvis' = [wvis EXCEPT ![w] = "rows"]
                  /\ Goto(w, "call_scrape")
                  /\ UNCHANGED <<status, wexc>>
    /\ UNCHANGED <<main_pc, progress, total_tasks, lock, queue, mon_pc, wtask, wdf,
                   wretries, wacc, wscrape_exc, runs, session, result, files, accVars, extVars, wsel>>

\* line 391 calls scrape_data; lines 188-192 set up its frame and its budget
ScrapeStart(w) ==
    /\ wpc[w] = "call_scrape"
    /\ wacc' = [wacc EXCEPT ![w] = TRUE]
    /\ UNCHANGED wscrape_exc
    /\ wdf' = [wdf EXCEPT ![w] = <<>>]
    /\ wretries' = [wretries EXCEPT ![w] = RetryBudget]
    /\ Goto(w, "scrape")
    /\ UNCHANGED <<main_pc, progress, total_tasks, lock, queue, mon_pc, wtask,
                   wvis, unitVars, files, accVars, extVars, wsel, wexc>>

\* One iteration of the loop of lines 193-205. raises: an exception inside the
\* iteration (the read, the frame, [-1] on an empty handle list, the scroll);
\* lines 209-215 log it and scrape_data returns None. The loop is left, and
\* line 207 returns df, when the budget reaches 0.
ScrapeIter_ReturnsPartialFrame(w) ==
    /\ wpc[w] = "scrape"
    /\ \E nstale \in StaleCounts, dom \in DomReads, raises \in BOOLEAN :
         LET new_rows == ExtractVisibleRows(nstale, dom)
             budget   == NextRetries(wdf[w], wretries[w], new_rows)
         IN  IF raises
             THEN /\ wscrape_exc' = [wscrape_exc EXCEPT ![w] = TRUE]
                  /\ wretries' = [wretries EXCEPT ![w] = 0]
                  /\ Goto(w, "post")
                  /\ UNCHANGED wdf
             ELSE /\ wdf' = [wdf EXCEPT ![w] = NextDf(wdf[w], new_rows)]
                  /\ wretries' = [wretries EXCEPT ![w] = budget]
                  /\ Goto(w, IF budget > 0 THEN "scrape" ELSE "post")
                  /\ UNCHANGED wscrape_exc
    /\ UNCHANGED <<main_pc, progress, total_tasks, lock, queue, mon_pc, wtask,
                   wvis, wacc, unitVars, files, accVars, extVars, wsel, wexc>>

ScrapeIter(w) ==
    /\ wpc[w] = "scrape"
    /\ \E nstale \in StaleCounts, dom \in DomReads, raises \in BOOLEAN :
         LET new_rows == ExtractVisibleRows(nstale, dom)
             budget   == NextRetries(wdf[w], wretries[w], new_rows)
         IN  IF raises
             THEN /\ wscrape_exc' = [wscrape_exc EXCEPT ![w] = TRUE]
                  /\ wdf' = [wdf EXCEPT ![w] = NoneRows]
                  /\ wretries' = [wretries EXCEPT ![w] = 0]
                  /\ Goto(w, "post")
             ELSE /\ wdf' = [wdf EXCEPT ![w] = NextDf(wdf[w], new_rows)]
                  /\ wretries' = [wretries EXCEPT ![w] = budget]
                  /\ Goto(w, IF budget > 0 THEN "scrape" ELSE "post")
                  /\ UNCHANGED wscrape_exc
    /\ UNCHANGED <<main_pc, progress, total_tasks, lock, queue, mon_pc, wtask,
                   wvis, wacc, unitVars, files, accVars, extVars, wsel, wexc>>

\* lines 392-398: the dimension columns (TypeError on None), drop_duplicates
PostProcess(w) ==
    /\ wpc[w] = "post"
    /\ IF wdf[w] = NoneRows
       THEN /\ RaiseInTry(w, "Failed")
            /\ wdf' = [wdf EXCEPT ![w] = <<>>]
       ELSE /\ wdf' = [wdf EXCEPT ![w] = DropDuplicates(AddColumns(wdf[w], wtask[w]))]
            /\ Goto(w, "write")
            /\ UNCHANGED <<status, wexc>>
    /\ UNCHANGED <<main_pc, progress, total_tasks, lock, queue, mon_pc, wtask,
                   wretries, wvis, wacc, wscrape_exc, runs, session, result, files, accVars, extVars, wsel>>

\* lines 401-407: the folders and df.to_csv; without an exception the handler
\* is skipped
WriteCsv_SucceedsUnwritten(w) ==
    /\ wpc[w] = "write"
    /\ \E ok \in BOOLEAN :
         IF ok
         THEN /\ UNCHANGED files
              /\ status' = [status EXCEPT ![wtask[w]] = "Succeeded"]
              /\ UNCHANGED wexc
              /\ Goto(w, "quit")
         ELSE /\ RaiseInTry(w, "Failed")
              /\ UNCHANGED files
    /\ wdf' = [wdf EXCEPT ![w] = <<>>]
    /\ UNCHANGED <<main_pc, progress, total_tasks, lock, queue, mon_pc, wtask,
                   wretries, wvis, wacc, wscrape_exc, runs, session, result, accVars, extVars, wsel>>

WriteCsv(w) ==
    /\ wpc[w] = "write"
    /\ \E ok \in BOOLEAN :
         IF ok
         THEN /\ files' = [p \in DOMAIN files \cup {OutputPath(wtask[w])} |->
                              IF p = OutputPath(wtask[w]) THEN wdf[w] ELSE files[p]]
              /\ status' = [status EXCEPT ![wtask[w]] = "Succeeded"]
              /\ UNCHANGED wexc
              /\ Goto(w, "quit")
         ELSE /\ RaiseInTry(w, "Failed")
              /\ UNCHANGED files
    /\ wdf' = [wdf EXCEPT ![w] = <<>>]
    /\ UNCHANGED <<main_pc, progress, total_tasks, lock, queue, mon_pc, wtask,
                   wretries, wvis, wacc, wscrape_exc, runs, session, result, accVars, extVars, wsel>>

\* lines 412-414: finally, driver.quit()
Quit_LeavesSessionOpen(w) ==
    /\ wpc[w] = "quit"
    /\ Goto(w, "lock")
    /\ UNCHANGED <<main_pc, progress, total_tasks, lock, queue, mon_pc, wtask, wdf,
                   wretries, wvis, wacc, wscrape_exc, unitVars, files, accVars, extVars, wsel, wexc>>

Quit_KeepsSessionForNextUnit(w) ==
    /\ wpc[w] = "quit"
    /\ Goto(w, "lock")
    /\ UNCHANGED <<main_pc, progress, total_tasks, lock, queue, mon_pc, wtask, wdf,
                   wretries, wvis, wacc, wscrape_exc, unitVars, files, accVars, extVars, wsel, wexc>>

Quit(w) ==
    /\ wpc[w] = "quit"
    /\ session' = [session EXCEPT ![wtask[w]] = "closed"]
    /\ Goto(w, "lock")
    /\ UNCHANGED <<main_pc, progress, total_tasks, lock, queue, mon_pc, wtask, wdf,
                   wretries, wvis, wacc, wscrape_exc, runs, status, result, files, accVars, extVars,
                   wsel, wexc>>

\* line 415: with lock (blocks while another process holds it)
AcquireLock_NoExclusion(w) ==
    /\ wpc[w] = "lock"
    /\ lock' = w
    /\ Goto(w, "inc")
    /\ UNCHANGED <<main_pc, progress, total_tasks, queue, mon_pc, wtask, wdf,
                   wretries, wvis, wacc, wscrape_exc, unitVars, files, accVars, extVars, wsel, wexc>>

AcquireLock(w) ==
    /\ wpc[w] = "lock"
    /\ lock = 0
    /\ lock' = w
    /\ Goto(w, "inc")
    /\ UNCHANGED <<main_pc, progress, total_tasks, queue, mon_pc, wtask, wdf,
                   wretries, wvis, wacc, wscrape_exc, unitVars, files, accVars, extVars, wsel, wexc>>

\* line 416, the release of the lock and the return to the pool
Increment(w) ==
    /\ wpc[w] = "inc"
    /\ progress' = [progress EXCEPT ![ProgressKey(wtask[w])] = @ + 1]
    /\ lock' = 0
    /\ result' = [result EXCEPT ![wtask[w]] = "returned"]
    /\ wtask' = [wtask EXCEPT ![w] = NoTask]
    /\ wvis' = [wvis EXCEPT ![w] = "unread"]
    /\ wacc' = [wacc EXCEPT ![w] = FALSE]
    /\ wscrape_exc' = [wscrape_exc EXCEPT ![w] = FALSE]
    /\ wsel' = [wsel EXCEPT ![w] = <<>>]
    /\ wexc' = [wexc EXCEPT ![w] = "none"]
    /\ Goto(w, "idle")
    /\ UNCHANGED <<main_pc, total_tasks, queue, mon_pc, wdf, wretries, runs,
                   status, session, files, accVars, extVars>>

Worker(w) ==
    \/ TakeTask(w)
    \/ CreateSession(w)
    \/ Setup(w)
    \/ SelectState(w)
    \/ SelectYear(w)
    \/ SelectCategory(w)
    \/ CheckVisible(w)
    \/ ScrapeStart(w)
    \/ ScrapeIter(w)
    \/ PostProcess(w)
    \/ WriteCsv(w)
    \/ Quit(w)
    \/ AcquireLock(w)
    \/ Increment(w)

Next ==
    \/ ModuleStart("category")
    \/ MainSeed
    \/ MainStarmap
    \/ MainStarmapReturns
    \/ MainJoin
    \/ MonitorPoll
    \/ MonitorClose
    \/ \E w \in Workers : Worker(w)

Spec == Init /\ [][Next]_vars

\* ------------------------- the category run when driver.quit() can raise
\* lines 412-416: driver.quit() is the first statement of the finally block.
\* When it raises, the rest of the block (the log line, the lock, the
\* increment) is not run and the exception leaves the worker: the pool keeps
\* it as the result of the task, and the session has not been closed.
\* At most MaxQuitFaults calls of driver.quit() raise in one run.
QuitFaults == Cardinality({u \in Units : result[u] = "raised" /\ session[u] # "none"})

Quit_q(w) ==
    /\ wpc[w] = "quit"
    /\ \E raises \in BOOLEAN :
         IF raises
         THEN /\ QuitFaults < MaxQuitFaults
              /\ UNCHANGED session
              /\ result' = [result EXCEPT ![wtask[w]] = "raised"]
              /\ wtask' = [wtask EXCEPT ![w] = NoTask]
              /\ wvis' = [wvis EXCEPT ![w] = "unread"]
              /\ wacc' = [wacc EXCEPT ![w] = FALSE]
              /\ wscrape_exc' = [wscrape_exc EXCEPT ![w] = FALSE]
              /\ wsel' = [wsel EXCEPT ![w] = <<>>]
              /\ wexc' = [wexc EXCEPT ![w] = "none"]
              /\ Goto(w, "idle")
         ELSE /\ session' = [session EXCEPT ![wtask[w]] = "closed"]
              /\ Goto(w, "lock")
              /\ UNCHANGED <<result, wtask, wvis, wacc, wscrape_exc, wsel, wexc>>
    /\ UNCHANGED <<main_pc, progress, total_tasks, lock, queue, mon_pc, wdf,
                   wretries, runs, status, files, accVars, extVars>>

Worker_q(w) ==
    \/ TakeTask(w)
    \/ CreateSession(w)
    \/ Setup(w)
    \/ SelectState(w)
    \/ SelectYear(w)
    \/ SelectCategory(w)
    \/ CheckVisible(w)
    \/ ScrapeStart(w)
    \/ ScrapeIter(w)
    \/ PostProcess(w)
    \/ WriteCsv(w)
    \/ Quit_q(w)
    \/ AcquireLock(w)
    \/ Increment(w)

NextQuit ==
    \/ ModuleStart("category")
    \/ MainSeed
    \/ MainStarmap
    \/ MainStarmapReturns
    \/ MainJoin
    \/ MonitorPoll
    \/ MonitorClose
    \/ \E w \in Workers : Worker_q(w)

SpecQuit == Init /\ [][NextQuit]_vars

\* ------------------------------------------- one call of scrape_data
\* One iteration of the loop of lines 193-205 with the history of the call:
\* nreads counts the reads; win0 is what the first read returned and static
\* says every read so far returned exactly that; noNew counts the latest
\* consecutive reads that brought no record the frame did not already hold.
AccIter ==
    /\ acc_pc = "loop"
    /\ \E nstale \in StaleCounts, dom \in AccReads, raises \in BOOLEAN :
         LET new_rows == ExtractVisibleRows(nstale, dom)
             new_df   == NewDf(new_rows)
             budget   == NextRetries(acc_df, acc_retries, new_rows)
             df2      == NextDf(acc_df, new_rows)
         IN  /\ acc_new' = new_rows
             /\ IF raises
                THEN /\ acc_pc' = "raised"
                     /\ acc_ret' = NoneRows
                     /\ UNCHANGED <<acc_df, acc_retries>>
                ELSE /\ acc_df' = df2
                     /\ acc_retries' = budget
                     /\ acc_pc' = IF budget > 0 THEN "loop" ELSE "returned"
                     /\ acc_ret' = IF budget > 0 THEN NoneRows ELSE df2
             /\ nreads' = Min(nreads + 1, ReadsCap)
             /\ win0' = IF nreads = 0 THEN new_df ELSE win0
             /\ static' = (/\ static
                           /\ ~raises
                           /\ new_rows # NoneRows
                           /\ nreads > 0 => new_df = win0)
             /\ noNew' = IF ~raises /\ acc_df # <<>> /\ Range(new_df) \subseteq Range(acc_df)
                         THEN Min(noNew + 1, ReadsCap)
                         ELSE 0
    /\ UNCHANGED <<schedVars, extVars>>

NextAcc == AccIter

SpecAcc == Init /\ [][NextAcc]_vars

\* the same call with its progress: while retries > 0 the loop of line 193
\* goes on to its next iteration
SpecAccLive == Init /\ [][NextAcc]_vars /\ WF_vars(AccIter)

\* ------------------------------------ district target: scrape_districts.py
\* The worker parallel_scrape_over_course_duration_qualification of
\* scrape_districts.py (the worker of scrape_course_duration.py has the same
\* steps from the visibility check on) with the file system it writes to.
othersOfDist == <<schedVars, accVars, citsVars, chkVars, lateVars>>

\* worker w moves to position pc
Goto_d(w, pc) == dpc' = [dpc EXCEPT ![w] = pc]

\* an exception inside the try block: lines 403-404 log it, then the finally
Raise_d(w, outcome) ==
    /\ Goto_d(w, "finally")
    /\ dstatus' = [dstatus EXCEPT ![ProgressKey_d(dtask[w])] = outcome]
    /\ dexc' = [dexc EXCEPT ![w] = IF dpc[w] = "mk_make" THEN "makedirs" ELSE dpc[w]]

\* lines 412-425: the shared map, the lock, the monitor, the task list
MainStart_d ==
    /\ mod_pc["districts"] = "main"
    /\ dmain = "start"
    /\ dprog' = ProgressSeed_d
    /\ dqueue' = TaskList_d
    /\ dmain' = "wait"
    /\ UNCHANGED <<dpc, dtask, ddf, dexp, dstage, dexc, dirs, dout, dlog, dstatus,
                   dwarn, dmis, othersOfDist>>

\* a pool process takes the next task of the list
TakeTask_d(w) ==
    /\ dpc[w] = "idle"
    /\ dqueue # <<>>
    /\ dtask' = [dtask EXCEPT ![w] = Head(dqueue)]
    /\ dqueue' = Tail(dqueue)
    /\ dstatus' = [dstatus EXCEPT ![ProgressKey_d(Head(dqueue))] = "Running"]
    /\ Goto_d(w, "open")
    /\ UNCHANGED <<dmain, dprog, ddf, dexp, dstage, dexc, dirs, dout, dlog, dwarn,
                   dmis, othersOfDist>>

\* lines 331-370: the session (created before the try: its exception is not
\* caught), the page, the locators and the three selections
Open_d(w) ==
    /\ dpc[w] = "open"
    /\ \E outcome \in {"ok", "raised", "uncaught"} :
         CASE outcome = "ok" ->
                /\ Goto_d(w, "check")
                /\ UNCHANGED <<dstatus, dexc, dtask>>
           [] outcome = "raised" ->
                /\ Raise_d(w, "Failed")
                /\ UNCHANGED dtask
           [] outcome = "uncaught" ->
                /\ dstatus' = [dstatus EXCEPT ![ProgressKey_d(dtask[w])] = "Failed"]
                /\ dtask' = [dtask EXCEPT ![w] = NoTask]
                /\ Goto_d(w, "idle")
                /\ UNCHANGED dexc
    /\ UNCHANGED <<dmain, dqueue, dprog, ddf, dexp, dstage, dirs, dout, dlog, dwarn,
                   dmis, othersOfDist>>

\* lines 372-374: the visibility check
CheckVisible_d(w) ==
    /\ dpc[w] = "check"
    /\ \E nstale \in StaleCounts, dom \in DomReads :
         LET rows == ExtractVisibleRows(nstale, dom)
         IN  IF rows = NoneRows THEN Raise_d(w, "Failed")
             ELSE IF Len(rows) = 0 THEN Raise_d(w, "EmptySkipped")
             ELSE Goto_d(w, "expected") /\ UNCHANGED <<dstatus, dexc>>
    /\ UNCHANGED <<dmain, dqueue, dprog, dtask, ddf, dexp, dstage, dirs, dout, dlog,
                   dwarn, dmis, othersOfDist>>

\* line 376: expected_data = get_expected_data(driver)
Expected_d(w) ==
    /\ dpc[w] = "expected"
    /\ \E text \in CardTexts :
         LET e == GetExpectedData(text)
         IN  IF e = -1
             THEN Raise_d(w, "Failed") /\ UNCHANGED dexp
             ELSE /\ dexp' = [dexp EXCEPT ![w] = e]
                  /\ Goto_d(w, "scrape")
                  /\ UNCHANGED <<dstatus, dexc>>
    /\ UNCHANGED <<dmain, dqueue, dprog, dtask, ddf, dstage, dirs, dout, dlog, dwarn,
                   dmis, othersOfDist>>

\* lines 379-385: scrape_data, the dimension columns (TypeError on None),
\* drop_duplicates
Scrape_d(w) ==
    /\ dpc[w] = "scrape"
    /\ \E r \in ScrapeResults :
         IF r = NoneRows
         THEN Raise_d(w, "Failed") /\ UNCHANGED ddf
         ELSE /\ ddf' = [ddf EXCEPT ![w] = DropDuplicates(AddColumns_d(r, dtask[w]))]
              /\ Goto_d(w, "compare")
              /\ UNCHANGED <<dstatus, dexc>>
    /\ UNCHANGED <<dmain, dqueue, dprog, dtask, dexp, dstage, dirs, dout, dlog, dwarn,
                   dmis, othersOfDist>>

\* lines 387-388: if len(df) != expected_data, the warning; the folders of the
\* record come next, otherwise those of the output
Compare_FlagsOnlyShortfall(w) ==
    /\ dpc[w] = "compare"
    /\ dmis' = [dmis EXCEPT ![ProgressKey_d(dtask[w])] =
                   IF Len(ddf[w]) # dexp[w] THEN "differ" ELSE "equal"]
    /\ IF Len(ddf[w]) < dexp[w]
       THEN /\ dwarn' = dwarn \cup {ProgressKey_d(dtask[w])}
            /\ dstage' = [dstage EXCEPT ![w] = 1]
       ELSE /\ dstage' = [dstage EXCEPT ![w] = 3]
            /\ UNCHANGED dwarn
    /\ Goto_d(w, "mk_exists")
    /\ UNCHANGED <<dmain, dqueue, dprog, dtask, ddf, dexp, dexc, dirs, dout, dlog,
                   dstatus, othersOfDist>>

Compare_d(w) ==
    /\ dpc[w] = "compare"
    /\ dmis' = [dmis EXCEPT ![ProgressKey_d(dtask[w])] =
                   IF Len(ddf[w]) # dexp[w] THEN "differ" ELSE "equal"]
    /\ IF Len(ddf[w]) # dexp[w]
       THEN /\ dwarn' = dwarn \cup {ProgressKey_d(dtask[w])}
            /\ dstage' = [dstage EXCEPT ![w] = 1]
       ELSE /\ dstage' = [dstage EXCEPT ![w] = 3]
            /\ UNCHANGED dwarn
    /\ Goto_d(w, "mk_exists")
    /\ UNCHANGED <<dmain, dqueue, dprog, dtask, ddf, dexp, dexc, dirs, dout, dlog,
                   dstatus, othersOfDist>>

\* where the worker goes once the folder of its stage is there
AfterFolder(w) ==
    CASE dstage[w] = 1 -> /\ dstage' = [dstage EXCEPT ![w] = 2]
                          /\ Goto_d(w, "mk_exists")
      [] dstage[w] = 2 -> /\ Goto_d(w, "flag_write")
                          /\ UNCHANGED dstage
      [] dstage[w] = 3 -> /\ dstage' = [dstage EXCEPT ![w] = 4]
                          /\ Goto_d(w, "mk_exists")
      [] dstage[w] = 4 -> /\ Goto_d(w, "out_write")
                          /\ UNCHANGED dstage

\* create_folder_if_not_exists, line 49: if not os.path.exists(folder_path)
FolderExists_d(w) ==
    /\ dpc[w] = "mk_exists"
    /\ IF FolderAt(dstage[w], dtask[w]) \in dirs
       THEN AfterFolder(w)
       ELSE Goto_d(w, "mk_make") /\ UNCHANGED dstage
    /\ UNCHANGED <<dmain, dqueue, dprog, dtask, ddf, dexp, dexc, dirs, dout, dlog,
                   dstatus, dwarn, dmis, othersOfDist>>

\* create_folder_if_not_exists, line 50: os.makedirs(folder_path) raises
\* FileExistsError when the folder has appeared since the test of line 49
FolderMake_ExistOk(w) ==
    /\ dpc[w] = "mk_make"
    /\ dirs' = dirs \cup WithParents(FolderAt(dstage[w], dtask[w]))
    /\ AfterFolder(w)
    /\ UNCHANGED <<dstatus, dexc>>
    /\ UNCHANGED <<dmain, dqueue, dprog, dtask, ddf, dexp, dout, dlog, dwarn, dmis,
                   othersOfDist>>

FolderMake_d(w) ==
    /\ dpc[w] = "mk_make"
    /\ IF FolderAt(dstage[w], dtask[w]) \in dirs
       THEN /\ Raise_d(w, "Failed")
            /\ UNCHANGED <<dirs, dstage>>
       ELSE /\ dirs' = dirs \cup WithParents(FolderAt(dstage[w], dtask[w]))
            /\ AfterFolder(w)
            /\ UNCHANGED <<dstatus, dexc>>
    /\ UNCHANGED <<dmain, dqueue, dprog, dtask, ddf, dexp, dout, dlog, dwarn, dmis,
                   othersOfDist>>

\* lines 391-392: the three-row record goes to improper_data/{year}/...
FlagWrite_d(w) ==
    /\ dpc[w] = "flag_write"
    /\ dlog' = [p \in DOMAIN dlog \cup {ImproperPath(dtask[w])} |->
                   IF p = ImproperPath(dtask[w])
                   THEN ImproperRecord(dtask[w], ddf[w], dexp[w])
                   ELSE dlog[p]]
    /\ dstage' = [dstage EXCEPT ![w] = 3]
    /\ Goto_d(w, "mk_exists")
    /\ UNCHANGED <<dmain, dqueue, dprog, dtask, ddf, dexp, dexc, dirs, dout, dstatus,
                   dwarn, dmis, othersOfDist>>

\* line 397: df.to_csv(...), the unit has succeeded
OutWrite_d(w) ==
    /\ dpc[w] = "out_write"
    /\ dout' = [p \in DOMAIN dout \cup {OutputPath_d(dtask[w])} |->
                   IF p = OutputPath_d(dtask[w]) THEN ddf[w] ELSE dout[p]]
    /\ dstatus' = [dstatus EXCEPT ![ProgressKey_d(dtask[w])] = "Succeeded"]
    /\ Goto_d(w, "finally")
    /\ UNCHANGED <<dmain, dqueue, dprog, dtask, ddf, dexp, dstage, dexc, dirs, dlog,
                   dwarn, dmis, othersOfDist>>

\* lines 406-410: driver.quit(), then the increment under the lock (a worker
\* that finds the lock taken waits; the critical section is one step here)
Finally_d(w) ==
    /\ dpc[w] = "finally"
    /\ dprog' = [dprog EXCEPT ![ProgressKey_d(dtask[w])] = @ + 1]
    /\ dtask' = [dtask EXCEPT ![w] = NoTask]
    /\ ddf' = [ddf EXCEPT ![w] = <<>>]
    /\ dexp' = [dexp EXCEPT ![w] = 0]
    /\ dstage' = [dstage EXCEPT ![w] = 0]
    /\ dexc' = [dexc EXCEPT ![w] = "none"]
    /\ Goto_d(w, "idle")
    /\ UNCHANGED <<dmain, dqueue, dirs, dout, dlog, dstatus, dwarn, dmis, othersOfDist>>

Worker_d(w) ==
    \/ TakeTask_d(w)
    \/ Open_d(w)
    \/ CheckVisible_d(w)
    \/ Expected_d(w)
    \/ Scrape_d(w)
    \/ Compare_d(w)
    \/ FolderExists_d(w)
    \/ FolderMake_d(w)
    \/ FlagWrite_d(w)
    \/ OutWrite_d(w)
    \/ Finally_d(w)

NextDist ==
    \/ ModuleStart("districts")
    \/ MainStart_d
    \/ \E w \in Workers : Worker_d(w)

SpecDist == Init /\ [][NextDist]_vars

\* ----------------------- certification target: scrape_cits_certified.py
othersOfCits == <<schedVars, accVars, distVars, chkVars, lateVars>>

\* worker w moves to position pc
Goto_c(w, pc) == cpc' = [cpc EXCEPT ![w] = pc]

\* an exception inside the try block: lines 424-425 log it, then the finally
Raise_c(w, outcome) ==
    /\ Goto_c(w, "finally")
    /\ cstatus' = [cstatus EXCEPT ![ProgressKey_c(ctask[w])] = outcome]
    /\ cexc' = [cexc EXCEPT ![w] = cpc[w]]

\* lines 439-453: the shared map, the lock, the monitor, the task list
MainStart_c ==
    /\ mod_pc["cits_certified"] = "main"
    /\ cmain = "start"
    /\ cprog' = ProgressSeed_c
    /\ cqueue' = TaskList_c
    /\ cmain' = "wait"
    /\ UNCHANGED <<cpc, ctask, cdf, cexc, cdirs, cout, cflagged, cstatus, othersOfCits>>

\* a pool process takes the next task of the list
TakeTask_c(w) ==
    /\ cpc[w] = "idle"
    /\ cqueue # <<>>
    /\ ctask' = [ctask EXCEPT ![w] = Head(cqueue)]
    /\ cqueue' = Tail(cqueue)
    /\ cstatus' = [cstatus EXCEPT ![ProgressKey_c(Head(cqueue))] = "Running"]
    /\ Goto_c(w, "open")
    /\ UNCHANGED <<cmain, cprog, cdf, cexc, cdirs, cout, cflagged, othersOfCits>>

\* lines 369-402: the session (created before the try: its exception is not
\* caught), the page, the detail report, the locators and the two selections
Open_c(w) ==
    /\ cpc[w] = "open"
    /\ \E outcome \in {"ok", "raised", "uncaught"} :
         CASE outcome = "ok" ->
                /\ Goto_c(w, "check")
                /\ UNCHANGED <<cstatus, cexc, ctask>>
           [] outcome = "raised" ->
                /\ Raise_c(w, "Failed")
                /\ UNCHANGED ctask
           [] outcome = "uncaught" ->
                /\ cstatus' = [cstatus EXCEPT ![ProgressKey_c(ctask[w])] = "Failed"]
                /\ ctask' = [ctask EXCEPT ![w] = NoTask]
                /\ Goto_c(w, "idle")
                /\ UNCHANGED cexc
    /\ UNCHANGED <<cmain, cqueue, cprog, cdf, cdirs, cout, cflagged, othersOfCits>>

\* lines 404-406: the visibility check
CheckVisible_c(w) ==
    /\ cpc[w] = "check"
    /\ \E nstale \in StaleCounts, dom \in DomReads :
         LET rows == ExtractVisibleRows(nstale, dom)
         IN  IF rows = NoneRows THEN Raise_c(w, "Failed")
             ELSE IF Len(rows) = 0 THEN Raise_c(w, "EmptySkipped")
             ELSE Goto_c(w, "scrape") /\ UNCHANGED <<cstatus, cexc>>
    /\ UNCHANGED <<cmain, cqueue, cprog, ctask, cdf, cdirs, cout, cflagged,
                   othersOfCits>>

\* lines 409-414: scrape_data(driver, state), which writes a flagged file for
\* each checked column whose sum disagrees with the footer (257-267) and
\* returns the frame, or returns None; then the Cits_Certified column
\* (TypeError on None) and drop_duplicates
Scrape_c(w) ==
    /\ cpc[w] = "scrape"
    /\ \E r \in ScrapeResults, kinds \in SUBSET FlagKinds :
         IF r = NoneRows
         THEN /\ Raise_c(w, "Failed")
              /\ UNCHANGED <<cdf, cflagged>>
         ELSE /\ cflagged' = cflagged \cup {FlagPath(k, ctask[w][1]) : k \in kinds}
              /\ cdf' = [cdf EXCEPT ![w] = DropDuplicates(AddColumns_c(r, ctask[w]))]
              /\ Goto_c(w, "mk_exists")
              /\ UNCHANGED <<cstatus, cexc>>
    /\ UNCHANGED <<cmain, cqueue, cprog, ctask, cdirs, cout, othersOfCits>>

\* line 417, create_folder_if_not_exists line 48: os.path.exists
FolderExists_c(w) ==
    /\ cpc[w] = "mk_exists"
    /\ Goto_c(w, IF <<"output_folder">> \in cdirs THEN "write" ELSE "mk_make")
    /\ UNCHANGED <<cmain, cqueue, cprog, ctask, cdf, cexc, cdirs, cout, cflagged,
                   cstatus, othersOfCits>>

\* create_folder_if_not_exists line 49: os.makedirs raises FileExistsError
\* when the folder has appeared since the test
FolderMake_c(w) ==
    /\ cpc[w] = "mk_make"
    /\ IF <<"output_folder">> \in cdirs
       THEN /\ Raise_c(w, "Failed")
            /\ UNCHANGED cdirs
       ELSE /\ cdirs' = cdirs \cup {<<"output_folder">>}
            /\ Goto_c(w, "write")
            /\ UNCHANGED <<cstatus, cexc>>
    /\ UNCHANGED <<cmain, cqueue, cprog, ctask, cdf, cout, cflagged, othersOfCits>>

\* line 420: df.to_csv replaces whatever the path held
Write_c(w) ==
    /\ cpc[w] = "write"
    /\ cout' = [p \in DOMAIN cout \cup {OutputPath_c(ctask[w])} |->
                   IF p = OutputPath_c(ctask[w]) THEN cdf[w] ELSE cout[p]]
    /\ cstatus' = [cstatus EXCEPT ![ProgressKey_c(ctask[w])] = "Succeeded"]
    /\ Goto_c(w, "finally")
    /\ UNCHANGED <<cmain, cqueue, cprog, ctask, cdf, cexc, cdirs, cflagged,
                   othersOfCits>>

\* lines 427-431: driver.quit(), then the increment under the lock
Finally_c(w) ==
    /\ cpc[w] = "finally"
    /\ cprog' = [cprog EXCEPT ![ProgressKey_c(ctask[w])] = @ + 1]
    /\ ctask' = [ctask EXCEPT ![w] = NoTask]
    /\ cdf' = [cdf EXCEPT ![w] = <<>>]
    /\ cexc' = [cexc EXCEPT ![w] = "none"]
    /\ Goto_c(w, "idle")
    /\ UNCHANGED <<cmain, cqueue, cdirs, cout, cflagged, cstatus, othersOfCits>>

Worker_c(w) ==
    \/ TakeTask_c(w)
    \/ Open_c(w)
    \/ CheckVisible_c(w)
    \/ Scrape_c(w)
    \/ FolderExists_c(w)
    \/ FolderMake_c(w)
    \/ Write_c(w)
    \/ Finally_c(w)

NextCits ==
    \/ ModuleStart("cits_certified")
    \/ MainStart_c
    \/ \E w \in Workers : Worker_c(w)

SpecCits == Init /\ [][NextCits]_vars

\* --------------- scrape_data of scrape_cits_certified.py, lines 234-277
othersOfChk == <<schedVars, accVars, distVars, citsVars, lateVars>>

\* lines 234-248: the loop ends with some frame and with the footer row of
\* the last read (extract_vis[-1])
LoopEnds_k ==
    /\ chk_pc = "loop"
    /\ \E df \in ChkFrames, foot \in FootRows :
         /\ chk_df' = df
         /\ summations' = foot
    /\ chk_pc' = "check"
    /\ UNCHANGED <<chk_flags, chk_ret, othersOfChk>>

\* lines 251-269: the conversions, the three column checks and return df; a
\* footer cell that float() rejects ends the call in the handler of 271-277,
\* which returns None
CheckedColumnChecks(df, foot) == ColumnChecks(df, foot, Len(CheckedColumns))

CheckColumns_k ==
    /\ chk_pc = "check"
    /\ LET res == CheckedColumnChecks(chk_df, summations)
       IN  /\ chk_flags' = res.flags
           /\ chk_ret' = IF res.raised THEN "None" ELSE "df"
    /\ chk_pc' = "returned"
    /\ UNCHANGED <<chk_df, summations, othersOfChk>>

NextChk ==
    \/ LoopEnds_k
    \/ CheckColumns_k

SpecChk == Init /\ [][NextChk]_vars

\* ------------------------------- initialize_dropdowns and get_xpath
othersOfXp == <<schedVars, accVars, distVars, citsVars, chkVars, argVars, readVars,
                optVars, discVars, tailVars>>

\* lines 102-104: the page source is parsed into a snapshot
ParsePage_x ==
    /\ xp_pc = "parse"
    /\ soup' \in Snapshots
    /\ xp_pc' = "resolve"
    /\ UNCHANGED <<xp_el, xp_ret, othersOfXp>>

\* lines 109-111 and 67-91: get_xpath of one element of the snapshot, or of None
GetXpath_x ==
    /\ xp_pc = "resolve"
    /\ \E element \in 0..Len(soup.par) :
         /\ xp_el' = element
         /\ xp_ret' = GetXpath(soup, element)
    /\ xp_pc' = "returned"
    /\ UNCHANGED <<soup, othersOfXp>>

NextXp ==
    \/ ParsePage_x
    \/ GetXpath_x

SpecXp == Init /\ [][NextXp]_vars

\* ------------------------------------- one call of extract_visible_rows
othersOfRead == <<schedVars, accVars, distVars, citsVars, chkVars, xpVars, argVars,
                  optVars, discVars, tailVars>>

\* One turn of the loop of lines 147-160. The attempt fetches the row handles
\* anew (line 149) and reads every cell; it completes and returns the rows
\* after the first (157), or a handle has gone stale and the budget goes down
\* (159-160; a stale handle needs a row to be read), or another exception
\* leaves the function. When the budget is used up the loop ends and the
\* function returns None.
Attempt_OtherExceptionRetried ==
    /\ ev_pc = "loop"
    /\ ev_retries > 0
    /\ \E dom \in DomReads, outcome \in {"complete", "stale", "other"} :
         /\ outcome = "stale" => dom # <<>>
         /\ ev_fetched' = Append(ev_fetched, dom)
         /\ ev_exc' = IF outcome = "complete" THEN "none" ELSE outcome
         /\ IF outcome = "complete"
            THEN /\ ev_ret' = DropFirst(dom)
                 /\ ev_pc' = "returned"
                 /\ UNCHANGED ev_retries
            ELSE /\ ev_retries' = ev_retries - 1
                 /\ ev_pc' = IF ev_retries = 1 THEN "returned" ELSE "loop"
                 /\ ev_ret' = IF ev_retries = 1 THEN NoneRows ELSE ev_ret
    /\ UNCHANGED othersOfRead

Attempt_e ==
    /\ ev_pc = "loop"
    /\ ev_retries > 0
    /\ \E dom \in DomReads, outcome \in {"complete", "stale", "other"} :
         /\ outcome = "stale" => dom # <<>>
         /\ ev_fetched' = Append(ev_fetched, dom)
         /\ ev_exc' = IF outcome = "complete" THEN "none" ELSE outcome
         /\ CASE outcome = "complete" ->
                   /\ ev_ret' = DropFirst(dom)
                   /\ ev_pc' = "returned"
                   /\ UNCHANGED ev_retries
              [] outcome = "stale" ->
                   /\ ev_retries' = ev_retries - 1
                   /\ ev_pc' = IF ev_retries = 1 THEN "returned" ELSE "loop"
                   /\ ev_ret' = IF ev_retries = 1 THEN NoneRows ELSE ev_ret
              [] outcome = "other" ->
                   /\ ev_pc' = "raised"
                   /\ UNCHANGED <<ev_retries, ev_ret>>
    /\ UNCHANGED othersOfRead

NextRead == Attempt_e

SpecRead == Init /\ [][NextRead]_vars

\* --------------------------------- one call of get_all_dropdown_options
othersOfOpt == <<schedVars, accVars, distVars, citsVars, chkVars, xpVars, argVars,
                 readVars, discVars, tailVars>>

\* lines 262-268: the dropdown (a finite one, with at least one option) is
\* opened, or the wait for it times out
OpenDropdown_o ==
    /\ op_pc = "start"
    /\ \E menu \in SUBSET Options \ {{}}, opened \in BOOLEAN :
         /\ op_menu' = menu
         /\ IF opened
            THEN op_pc' = "loop" /\ UNCHANGED op_exc
            ELSE op_pc' = "raised" /\ op_exc' = "driver"
    /\ op_all' = {}
    /\ op_retries' = OptionRetries
    /\ op_prev' = 0
    /\ UNCHANGED <<op_ret, op_reads, othersOfOpt>>

\* One turn of the loop of lines 269-283. visible: the labels of the option
\* elements in the scroll region ('Select all' is left out at line 274);
\* current_options[-3] raises IndexError for fewer than three labels;
\* found: find_element locates the element of that title. When the budget
\* is used up the loop ends and lines 285-286 return current_options.
ReadOptions_o ==
    /\ op_pc = "loop"
    /\ op_retries > 0
    /\ \E visible \in SUBSET (op_menu \cup {SelectAll}), found \in BOOLEAN :
         LET all_options     == op_all \cup (visible \ {SelectAll})
             current_options == SortSet(all_options)
             current_length  == Len(current_options)
             retries         == IF current_length = op_prev THEN op_retries - 1
                                                            ELSE op_retries
         IN  /\ op_all' = all_options
             /\ op_retries' = retries
             /\ IF current_length < 3
                THEN /\ op_pc' = "raised"
                     /\ op_exc' = "IndexError"
                     /\ UNCHANGED <<op_prev, op_ret>>
                ELSE IF ~found
                THEN /\ op_pc' = "raised"
                     /\ op_exc' = "driver"
                     /\ UNCHANGED <<op_prev, op_ret>>
                ELSE /\ op_prev' = current_length
                     /\ op_pc' = IF retries > 0 THEN "loop" ELSE "returned"
                     /\ op_ret' = IF retries > 0 THEN op_ret ELSE current_options
                     /\ UNCHANGED op_exc
    /\ op_reads' = op_reads + 1
    /\ UNCHANGED <<op_menu, othersOfOpt>>

NextOpt ==
    \/ OpenDropdown_o
    \/ ReadOptions_o

SpecOpt == Init /\ [][NextOpt]_vars

\* ------------------------------ the discovery run: get_all_districts.py
othersOfDisc == <<schedVars, accVars, distVars, citsVars, chkVars, xpVars, argVars,
                  readVars, optVars, tailVars>>

\* worker w moves to position pc
Goto_g(w, pc) == gpc' = [gpc EXCEPT ![w] = pc]

\* lines 412-426: the shared map, the lock, the monitor, the task list
MainStart_g ==
    /\ gmain = "start"
    /\ gprog' = [st \in Range(states_g) |-> 0]
    /\ gqueue' = states_g
    /\ gmain' = "wait"
    /\ UNCHANGED <<gpc, gtask, gval, gsession, graised, gresults, merged_data, pkl,
                   othersOfDisc>>

\* a pool process takes the next task of the list
TakeTask_g(w) ==
    /\ gpc[w] = "idle"
    /\ gqueue # <<>>
    /\ gtask' = [gtask EXCEPT ![w] = Head(gqueue)]
    /\ gqueue' = Tail(gqueue)
    /\ Goto_g(w, "create")
    /\ UNCHANGED <<gmain, gprog, gval, gsession, graised, gresults, merged_data, pkl,
                   othersOfDisc>>

\* lines 347-353, before the try block: webdriver.Chrome(...) opens the session
\* or raises, and nothing in the worker body catches that
CreateSession_NeverRaises(w) ==
    /\ gpc[w] = "create"
    /\ gsession' = [gsession EXCEPT ![gtask[w]] = "open"]
    /\ Goto_g(w, "body")
    /\ UNCHANGED <<gtask, gresults>>
    /\ UNCHANGED <<gmain, gqueue, gprog, gval, graised, merged_data, pkl, othersOfDisc>>

CreateSession_g(w) ==
    /\ gpc[w] = "create"
    /\ \E ok \in BOOLEAN :
         IF ok
         THEN /\ gsession' = [gsession EXCEPT ![gtask[w]] = "open"]
              /\ Goto_g(w, "body")
              /\ UNCHANGED <<gtask, gresults>>
         ELSE /\ gresults' = [gresults EXCEPT ![gtask[w]] = RaisedOut]
              /\ gtask' = [gtask EXCEPT ![w] = 0]
              /\ Goto_g(w, "idle")
              /\ UNCHANGED gsession
    /\ UNCHANGED <<gmain, gqueue, gprog, gval, graised, merged_data, pkl, othersOfDisc>>

\* lines 356-397: the try block ends with return {state: districts}, or an
\* exception reaches the handler, which ends with return {state: []}
Body_g(w) ==
    /\ gpc[w] = "body"
    /\ \/ /\ \E districts \in DiscoveredLists : gval' = [gval EXCEPT ![w] = districts]
          /\ UNCHANGED graised
       \/ /\ gval' = [gval EXCEPT ![w] = <<>>]
          /\ graised' = [graised EXCEPT ![gtask[w]] = TRUE]
    /\ Goto_g(w, "finally")
    /\ UNCHANGED <<gmain, gqueue, gprog, gtask, gsession, gresults, merged_data, pkl,
                   othersOfDisc>>

\* lines 399-403: driver.quit(), the increment under the lock, and the value
\* goes back to the pool
Finally_g(w) ==
    /\ gpc[w] = "finally"
    /\ gsession' = [gsession EXCEPT ![gtask[w]] = "closed"]
    /\ gprog' = [gprog EXCEPT ![gtask[w]] = @ + 1]
    /\ gresults' = [gresults EXCEPT ![gtask[w]] = gval[w]]
    /\ gval' = [gval EXCEPT ![w] = NotYet]
    /\ gtask' = [gtask EXCEPT ![w] = 0]
    /\ Goto_g(w, "idle")
    /\ UNCHANGED <<gmain, gqueue, graised, merged_data, pkl, othersOfDisc>>

\* lines 426-429: starmap returns the results in task order, or re-raises the
\* exception of a task; the results are merged into one dict
StarmapReturns_g ==
    /\ gmain = "wait"
    /\ gqueue = <<>>
    /\ \A w \in Workers : gpc[w] = "idle"
    /\ IF \E st \in Range(states_g) : gresults[st] = RaisedOut
       THEN /\ gmain' = "aborted"
            /\ UNCHANGED merged_data
       ELSE /\ merged_data' = [st \in Range(states_g) |-> gresults[st]]
            /\ gmain' = "join"
    /\ UNCHANGED <<gqueue, gprog, gpc, gtask, gval, gsession, graised, gresults, pkl,
                   othersOfDisc>>

\* lines 431-435: the monitor has seen the full sum, the mapping is pickled
WritePickle_g ==
    /\ gmain = "join"
    /\ SumOver(gprog, DOMAIN gprog) = Len(states_g)
    /\ pkl' = merged_data
    /\ gmain' = "done"
    /\ UNCHANGED <<gqueue, gprog, gpc, gtask, gval, gsession, graised, gresults,
                   merged_data, othersOfDisc>>

Worker_g(w) ==
    \/ TakeTask_g(w)
    \/ CreateSession_g(w)
    \/ Body_g(w)
    \/ Finally_g(w)

NextDisc ==
    \/ MainStart_g
    \/ StarmapReturns_g
    \/ WritePickle_g
    \/ \E w \in Workers : Worker_g(w)

SpecDisc == Init /\ [][NextDisc]_vars

\* ------------------- one call of the category worker against a dashboard
\* The body of parallel_scrape_over_categories for one unit, with the slicers
\* of its session and the records the dashboard holds; the accumulation loop
\* is one step here (it is SpecAcc) and the read returns what the grid shows.
othersOfFilt == <<schedVars, accVars, distVars, citsVars, chkVars, xpVars, argVars,
                  readVars, optVars, discVars, keyVars>>

\* an exception reaches the handler of lines 409-410; the finally block follows
Raise_f == fl_exc' = fl_pc /\ fl_pc' = "finally"

\* lines 332-365: the arguments, the session, the page, clear_filters
Open_f ==
    /\ fl_pc = "open"
    /\ \E u \in Units, table \in SUBSET Units :
         /\ fl_task' = u
         /\ fl_table' = table
    /\ fl_slicer' = Cleared
    /\ fl_pc' = "sel_state"
    /\ UNCHANGED <<fl_df, fl_files, fl_exc, othersOfFilt>>

\* line 368 and lines 243-273: search_select_from_dropdown sets the slicer,
\* or catches ElementClickIntercepted, NoSuchElement or Timeout, logs it and
\* returns with the slicer as it was; any other exception propagates
SearchSelect_AlwaysSelects ==
    /\ fl_pc = "sel_state"
    /\ \E outcome \in {"selected", "caught", "raised"} :
         IF outcome = "raised"
         THEN Raise_f /\ UNCHANGED fl_slicer
         ELSE /\ fl_slicer' = [fl_slicer EXCEPT !["STATE_NAME"] = fl_task[1]]
              /\ fl_pc' = "sel_year"
              /\ UNCHANGED fl_exc
    /\ UNCHANGED <<fl_task, fl_table, fl_df, fl_files, othersOfFilt>>

SearchSelect_f ==
    /\ fl_pc = "sel_state"
    /\ \E outcome \in {"selected", "caught", "raised"} :
         IF outcome = "raised"
         THEN Raise_f /\ UNCHANGED fl_slicer
         ELSE /\ fl_slicer' = IF outcome = "selected"
                              THEN [fl_slicer EXCEPT !["STATE_NAME"] = fl_task[1]]
                              ELSE fl_slicer
              /\ fl_pc' = "sel_year"
              /\ UNCHANGED fl_exc
    /\ UNCHANGED <<fl_task, fl_table, fl_df, fl_files, othersOfFilt>>

\* line 373 and lines 217-241: select_option_from_dropdown sets the slicer or
\* raises (it has no handler)
SelectYear_f ==
    /\ fl_pc = "sel_year"
    /\ \E ok \in BOOLEAN :
         IF ok
         THEN /\ fl_slicer' = [fl_slicer EXCEPT !["ACADEMIC_SESSION"] = fl_task[3]]
              /\ fl_pc' = "sel_category"
              /\ UNCHANGED fl_exc
         ELSE Raise_f /\ UNCHANGED fl_slicer
    /\ UNCHANGED <<fl_task, fl_table, fl_df, fl_files, othersOfFilt>>

\* line 378
SelectCategory_f ==
    /\ fl_pc = "sel_category"
    /\ \E ok \in BOOLEAN :
         IF ok
         THEN /\ fl_slicer' = [fl_slicer EXCEPT !["CATEGORY"] = fl_task[2]]
              /\ fl_pc' = "check"
              /\ UNCHANGED fl_exc
         ELSE Raise_f /\ UNCHANGED fl_slicer
    /\ UNCHANGED <<fl_task, fl_table, fl_df, fl_files, othersOfFilt>>

\* lines 386-388: no visible row raises the skip exception
CheckVisible_f ==
    /\ fl_pc = "check"
    /\ IF ShownRows(fl_table, fl_slicer) = <<>>
       THEN Raise_f
       ELSE fl_pc' = "scrape" /\ UNCHANGED fl_exc
    /\ UNCHANGED <<fl_task, fl_table, fl_slicer, fl_df, fl_files, othersOfFilt>>

\* lines 391-398: scrape_data returns the rows the grid shows (or None, and
\* line 392 raises); the worker adds its own arguments as columns
Scrape_f ==
    /\ fl_pc = "scrape"
    /\ \E ok \in BOOLEAN :
         IF ok
         THEN /\ fl_df' = DropDuplicates(AddColumns(ShownRows(fl_table, fl_slicer),
                                                    fl_task))
              /\ fl_pc' = "write"
              /\ UNCHANGED fl_exc
         ELSE Raise_f /\ UNCHANGED fl_df
    /\ UNCHANGED <<fl_task, fl_table, fl_slicer, fl_files, othersOfFilt>>

\* lines 401-407: the folders and df.to_csv under the path of the arguments
Write_f ==
    /\ fl_pc = "write"
    /\ \E ok \in BOOLEAN :
         IF ok
         THEN /\ fl_files' = [p \in {OutputPath(fl_task)} |-> fl_df]
              /\ fl_pc' = "finally"
              /\ UNCHANGED fl_exc
         ELSE Raise_f /\ UNCHANGED fl_files
    /\ UNCHANGED <<fl_task, fl_table, fl_slicer, fl_df, othersOfFilt>>

\* lines 412-416
Finally_f ==
    /\ fl_pc = "finally"
    /\ fl_pc' = "returned"
    /\ UNCHANGED <<fl_task, fl_table, fl_slicer, fl_df, fl_files, fl_exc, othersOfFilt>>

NextFilt ==
    \/ Open_f
    \/ SearchSelect_f
    \/ SelectYear_f
    \/ SelectCategory_f
    \/ CheckVisible_f
    \/ Scrape_f
    \/ Write_f
    \/ Finally_f

SpecFilt == Init /\ [][NextFilt]_vars

\* --------------------------- the Progress map of a target and its keys
\* __main__ of one of the five targets seeds its map and hands its task list
\* to the pool; a pool process takes the arguments of a task and, at the end
\* of the worker body, increments progress[key] in the finally block. The map
\* is a manager dict: progress[key] += 1 with a key that is not in it raises
\* KeyError and leaves the map as it was.
othersOfKeys == <<schedVars, accVars, distVars, citsVars, chkVars, xpVars, argVars,
                  readVars, optVars, discVars, filtVars>>

MainStart_k ==
    /\ kmain = "start"
    /\ \E t \in KeyTargets :
         /\ kmain' = t
         /\ kprog' = SeedOf(t)
         /\ kqueue' = TasksOf(t)
    /\ UNCHANGED <<ktask, kpc, kerr, othersOfKeys>>

\* a pool process takes the next task of the list and calls the worker
TakeTask_k(w) ==
    /\ kmain # "start"
    /\ kpc[w] = "idle"
    /\ kqueue # <<>>
    /\ ktask' = [ktask EXCEPT ![w] = Head(kqueue)]
    /\ kqueue' = Tail(kqueue)
    /\ kpc' = [kpc EXCEPT ![w] = "try"]
    /\ UNCHANGED <<kmain, kprog, kerr, othersOfKeys>>

\* the try block ends, by its last statement, by a return or by an exception
\* that the handler logs: the finally block is next on every one of them
Body_k(w) ==
    /\ kpc[w] = "try"
    /\ kpc' = [kpc EXCEPT ![w] = "finally"]
    /\ UNCHANGED <<kmain, kprog, kqueue, ktask, kerr, othersOfKeys>>

\* the finally block: with lock: progress[key] += 1
Increment_k(w) ==
    /\ kpc[w] = "finally"
    /\ LET key == KeyOf(kmain, ktask[w])
       IN  IF key \in DOMAIN kprog
           THEN /\ kprog' = [kprog EXCEPT ![key] = @ + 1]
                /\ UNCHANGED kerr
           ELSE /\ kerr' = "KeyError"
                /\ UNCHANGED kprog
    /\ ktask' = [ktask EXCEPT ![w] = NoTask]
    /\ kpc' = [kpc EXCEPT ![w] = "idle"]
    /\ UNCHANGED <<kmain, kqueue, othersOfKeys>>

NextKeys ==
    \/ MainStart_k
    \/ \E w \in Workers : TakeTask_k(w)
    \/ \E w \in Workers : Body_k(w)
    \/ \E w \in Workers : Increment_k(w)

SpecKeys == Init /\ [][NextKeys]_vars

\* =========================================================== the claims

\* a unit whose worker call has ended, by return or by exception
Finished(u) == result[u] # "none"

\* C1: on every path through the worker body the unit's Progress entry is
\* incremented exactly once, and the increment is made while holding the lock.
\* (Stated as claimed; the code violates it when webdriver.Chrome raises.)
C1_ProgressOncePerUnit ==
    /\ \A u \in Units :
         /\ u \in DOMAIN progress => progress[u] <= 1
         /\ Finished(u) => u \in DOMAIN progress /\ progress[u] = 1
    /\ \A w \in Workers : wpc[w] = "inc" => lock = w

C3_NoFailureReachesPool ==
    /\ \A u \in Units : result[u] # "raised"
    /\ main_pc # "aborted"

\* C4: the Progress map is seeded with one zero entry per combination of the
\* Cartesian product, total_tasks is the number of combinations, and each
\* combination is dispatched exactly once.
OccurrencesIn(q, u) == Cardinality({i \in 1..Len(q) : q[i] = u})

C5_RunCompletes ==
    main_pc \in {"join", "done", "aborted"} =>
        /\ main_pc # "aborted"
        /\ ProgressSum = total_tasks

C7_NoDuplicateRecords ==
    /\ \A p \in DOMAIN files : NoDuplicates(files[p])
    /\ \A w \in Workers :
         IF wpc[w] = "write" THEN NoDuplicates(wdf[w])
         ELSE wdf[w] # NoneRows => NoDuplicates(wdf[w])

C7_Witness ==
    /\ \E p \in DOMAIN files : Len(files[p]) >= 1
    /\ \E w \in Workers : wpc[w] = "scrape" /\ wretries[w] < RetryBudget /\ wdf[w] # <<>>

\* C8: the row at index 0 of a read (the header the grid emits) is never in
\* the accumulated set nor in a persisted RowSet.
C8_NoSentinelPersisted ==
    /\ \A p \in DOMAIN files : \A i \in 1..Len(files[p]) : files[p][i][1] # Header
    /\ \A w \in Workers :
         (wpc[w] \in {"scrape", "post"} /\ wdf[w] # NoneRows) => Header \notin Range(wdf[w])

C8_Witness ==
    \E p \in DOMAIN files : \E i \in 1..Len(files[p]) : files[p][i][1] \in 1..SchedRows

\* C9: against a static table whose every read returns the same K >= 1
\* pairwise distinct rows, scrape_data returns after RetryBudget + 1 reads,
\* and returns exactly those rows in read order.
C9_StaticTable ==
    (static /\ nreads >= 1 /\ win0 # <<>> /\ NoDuplicates(win0)) =>
        /\ acc_df = win0
        /\ nreads <= RetryBudget + 1
        /\ acc_retries = RetryBudget + 1 - nreads
        /\ nreads < RetryBudget + 1 => acc_pc = "loop"
        /\ nreads = RetryBudget + 1 => acc_pc = "returned" /\ acc_ret = win0

C9_Witness ==
    /\ static
    /\ Len(win0) = 2
    /\ NoDuplicates(win0)
    /\ acc_pc = "returned"
    /\ acc_ret = win0

\* C10: once the source brings no new row (every read holds only rows already
\* accumulated), scrape_data is done within RetryBudget further reads.
\* (Stated as claimed; the code resets the budget on every read that is not
\* the tail of the frame.)
C10_DoneWithinBudget == acc_pc = "loop" => noNew < RetryBudget

\* the arguments the scheduler passes for the unit with key u
TaskOfKey_d(u) == <<u[2], u[3], u[1]>>

Finished_d(u) == u \in DOMAIN dprog /\ dprog[u] = 1

\* C11: for a unit whose deduplicated RowSet (size M) has been compared with
\* the displayed total E, the mismatch is flagged (the warning is logged and
\* the improper_data record holding the key, M and E is written) if and only
\* if M differs from E.
\* (Stated as claimed; the record is lost when os.makedirs raises, see C34.)
C11_FlaggedIffMismatch ==
    /\ \A u \in DistUnits :
         (Finished_d(u) /\ dmis[u] # "unknown") =>
            ((u \in dwarn /\ ImproperPath(TaskOfKey_d(u)) \in DOMAIN dlog)
                <=> dmis[u] = "differ")
    /\ \A u \in DistUnits :
         ImproperPath(TaskOfKey_d(u)) \in DOMAIN dlog =>
            LET rec == dlog[ImproperPath(TaskOfKey_d(u))]
            IN  rec[1] = u /\ rec[2] # rec[3]

\* C12: the column check flags a mismatch if and only if the sum of at least
\* one numeric column of the frame disagrees with the footer sum displayed
\* for that column (for footers that are all numbers).
\* (Stated as claimed; the code compares three of the numeric columns.)
C12_FlagsIffColumnDisagrees ==
    (chk_pc = "returned"
        /\ \A c \in 1..Len(NumericColumns) : FootValue(summations[c]) # -1) =>
       (chk_flags # {}
           <=> \E c \in 1..Len(NumericColumns) :
                  ColumnSum(chk_df, c) # FootValue(summations[c]))

\* C13: a unit whose completeness check found a mismatch is not aborted by
\* it: no exception comes out of the flagging steps, the unit goes on to its
\* main output, and when it has succeeded both the record and the main
\* output exist; its Progress entry is incremented once.
\* (Stated as claimed; os.makedirs of the improper_data folders can raise.)
C13_MismatchNeverAborts ==
    /\ \A w \in Workers :
         (dpc[w] = "finally" /\ ProgressKey_d(dtask[w]) \in dwarn) =>
            \/ dexc[w] = "makedirs" /\ dstage[w] \in {3, 4}
            \/ /\ dexc[w] = "none"
               /\ dstatus[ProgressKey_d(dtask[w])] = "Succeeded"
               /\ ImproperPath(dtask[w]) \in DOMAIN dlog
               /\ OutputPath_d(dtask[w]) \in DOMAIN dout
    /\ \A u \in dwarn : dprog[u] <= 1

\* C14: the output path is an injective function of the unit key, so once a
\* unit has succeeded the file at its path holds that unit's own RowSet (its
\* rows carry its own Cits_Certified value), whatever the completion order.
\* (Stated as claimed; the certification path leaves out cits_certified.)
Finished_c(u) == u \in DOMAIN cprog /\ cprog[u] = 1

C14_OutputPathInjective ==
    /\ \A u, v \in Units : u # v => OutputPath(u) # OutputPath(v)
    /\ \A u, v \in DistUnits :
          u # v => OutputPath_d(TaskOfKey_d(u)) # OutputPath_d(TaskOfKey_d(v))
    /\ \A u \in CitsUnits :
          (Finished_c(u) /\ cstatus[u] = "Succeeded") =>
             /\ OutputPath_c(u) \in DOMAIN cout
             /\ \A i \in 1..Len(cout[OutputPath_c(u)]) : cout[OutputPath_c(u)][i][2] = u[2]

\* C15: within one unit the selections are applied in the order STATE, YEAR,
\* CATEGORY, each after the earlier one has returned, and no row is read
\* (neither by the visibility check nor by scrape_data) before the last
\* selection has returned.
SelectionOrder == <<"STATE", "YEAR", "CATEGORY">>

IsPrefix(s, t) == Len(s) <= Len(t) /\ s = SubSeq(t, 1, Len(s))

DirectSelectFailed(w) == wexc[w] \in {"sel_year", "sel_category"}

C16_FailureState ==
    \A w \in Workers :
       DirectSelectFailed(w) =>
          /\ wpc[w] \in {"quit", "lock", "inc"}
          /\ status[wtask[w]] = "Failed"
          /\ result[wtask[w]] = "none"
          /\ ~wacc[w]
          /\ wvis[w] = "unread"
          /\ OutputPath(wtask[w]) \notin DOMAIN files
          /\ progress[wtask[w]] = 0
          /\ wpc[w] = "quit" => session[wtask[w]] = "open"
          /\ wpc[w] \in {"lock", "inc"} => session[wtask[w]] = "closed"

C16_FailureStep ==
    \A w \in Workers :
       /\ (wpc[w] \in {"sel_year", "sel_category"} /\ wpc'[w] # wpc[w]) =>
             \/ wpc'[w] \in {"sel_category", "check"} /\ wexc'[w] = "none"
             \/ /\ wpc'[w] = "quit"
                /\ wexc'[w] = wpc[w]
                /\ main_pc' = main_pc
                /\ queue' = queue
                /\ \A v \in Workers \ {w} : wpc'[v] = wpc[v] /\ wtask'[v] = wtask[v]
       /\ (DirectSelectFailed(w) /\ wpc'[w] = "idle") =>
             /\ progress'[wtask[w]] = 1
             /\ result'[wtask[w]] = "returned"
             /\ session'[wtask[w]] = "closed"
             /\ status'[wtask[w]] = "Failed"
             /\ OutputPath(wtask[w]) \notin DOMAIN files'

C17_SelectionErrorsCaught ==
    \A w \in Workers : wexc[w] \notin {"sel_state", "sel_year", "sel_category"}

\* C18: at most PoolSize sessions are open; an open session belongs to the
\* unit of exactly one worker, which no other worker runs; it is opened after
\* the unit is taken and closed before the worker is free for its next unit.
OpenSessions == {u \in Units : session[u] = "open"}

C19_ProgressState ==
    /\ \A u \in DOMAIN progress : progress[u] \in {0, 1}
    /\ Cardinality({w \in Workers : wpc[w] = "inc"}) <= 1
    /\ \A w \in Workers : wpc[w] = "inc" <=> lock = w
    /\ main_pc # "start" =>
          ProgressSum = Cardinality({u \in Units : result[u] = "returned"})

C19_ProgressStep ==
    /\ (main_pc # "start" /\ progress' # progress) =>
          \E w \in Workers :
             /\ wpc[w] = "inc"
             /\ lock = w
             /\ progress' = [progress EXCEPT ![ProgressKey(wtask[w])] = @ + 1]
    /\ \A u \in DOMAIN progress : u \in DOMAIN progress' /\ progress'[u] >= progress[u]
    /\ mon_pc' # mon_pc => (main_pc = "start" \/ progress' = progress)

C19_ProgressUnderLock == [](C19_ProgressState) /\ [][C19_ProgressStep]_vars

C19_Witness ==
    /\ \E w \in Workers : wpc[w] = "inc"
    /\ \E w \in Workers : wpc[w] = "lock"
    /\ \E u \in Units : progress[u] = 1

\* C20: every unit goes Pending -> Running -> one of Succeeded, EmptySkipped,
\* Failed; it is run once, by one worker; a terminal state is never left; the
\* key a worker holds does not change from the moment it takes the unit until
\* it has incremented Progress.
Terminal == {"Succeeded", "EmptySkipped", "Failed"}

C20_LifecycleState ==
    \A u \in Units :
       /\ runs[u] <= 1
       /\ status[u] \in {"Pending", "Running"} \cup Terminal
       /\ status[u] = "Pending" <=> runs[u] = 0
       /\ status[u] # "Pending" =>
             Cardinality({w \in Workers : wtask[w] = u}) = IF Finished(u) THEN 0 ELSE 1
       /\ Finished(u) => status[u] \in Terminal

C20_LifecycleStep ==
    /\ \A u \in Units :
          status'[u] # status[u] =>
             \/ status[u] = "Pending" /\ status'[u] = "Running"
             \/ status[u] = "Running" /\ status'[u] \in Terminal
    /\ \A w \in Workers :
          wtask'[w] # wtask[w] => (wtask[w] = NoTask \/ wtask'[w] = NoTask)

C20_UnitLifecycle == [](C20_LifecycleState) /\ [][C20_LifecycleStep]_vars

C20_Witness ==
    \E u1, u2, u3 \in Units :
       /\ status[u1] = "Succeeded" /\ Finished(u1)
       /\ status[u2] = "EmptySkipped" /\ Finished(u2)
       /\ status[u3] = "Failed" /\ Finished(u3)


\* C21: get_xpath returns None for an absent element; for an element of the
\* snapshot it returns a root-relative path of tag names in which a segment
\* carries a 1-based index exactly when the parent has more than one child of
\* that tag, and the path evaluated against the same snapshot selects exactly
\* the element it was computed from, identical same-tag siblings included.
\* (Stated as claimed; siblings.index finds the first equal sibling.)
RECURSIVE Ancestors(_, _)
Ancestors(s, i) == IF i = 0 THEN <<>> ELSE Append(Ancestors(s, s.par[i]), i)

C22_UsageAndExit ==
    /\ \A t \in Targets :
         /\ mod_pc[t] # "import" => (mod_pc[t] = "exited" <=> sys_argv[t] # 2)
         /\ mod_pc[t] = "exited" => usage[t] /\ exit_status[t] = 1
         /\ mod_pc[t] = "main" => ~usage[t] /\ exit_status[t] = -1
    /\ mod_pc["category"] # "main" =>
         /\ main_pc = "start"
         /\ DOMAIN progress = {}
         /\ mon_pc = "off"
         /\ queue = <<>>
         /\ \A w \in Workers : wpc[w] = "idle"
         /\ \A u \in Units : runs[u] = 0 /\ session[u] = "none"

C22_Witness ==
    /\ mod_pc["category"] = "exited"
    /\ sys_argv["category"] = 1
    /\ usage["category"]
    /\ exit_status["category"] = 1

\* The units of the category target whose frame has been compared with a
\* figure the dashboard displays: lines 391-405 go from scrape_data to
\* df.to_csv without reading a displayed total or a footer row, so no step of
\* parallel_scrape_over_categories adds a unit.
ComparedUnits == {}

\* the district target: a written unit has been through the comparison of
\* line 387
CheckedBeforeWrite_d ==
    \A u \in DistUnits :
       OutputPath_d(TaskOfKey_d(u)) \in DOMAIN dout => dmis[u] # "unknown"

\* C23: for every scrape target a unit's RowSet is persisted only after it
\* has been compared with the figure the dashboard displays: accumulate, then
\* check, then write.
\* (Stated as claimed; the category target writes without any comparison.)
C23_CheckedBeforeWrite ==
    /\ CheckedBeforeWrite_d
    /\ \A u \in Units : OutputPath(u) \in DOMAIN files => u \in ComparedUnits

\* C24: during accumulation the RowSet only grows and keeps first-seen order:
\* after every iteration the previous frame is a prefix of the new one (no
\* record is removed or reordered), and every data row the read of the
\* iteration returned is in the frame once the iteration has ended.
C24_State ==
    /\ acc_pc # "raised" => Range(NewDf(acc_new)) \subseteq Range(acc_df)
    /\ acc_pc = "returned" => acc_ret = acc_df

C24_Step == IsPrefix(acc_df, acc_df')

C24_GrowsInFirstSeenOrder == [](C24_State) /\ [][C24_Step]_vars

C24_Witness ==
    /\ acc_pc = "loop"
    /\ acc_df = <<2, 1>>
    /\ acc_new = <<1, 2>>

\* C25: the retry budget lies in 0..RetryBudget; a read cycle decrements it by
\* one exactly when the frame is non-empty and the rows just read are, in
\* order, the last len(read) records of the frame; every other read cycle
\* resets it to RetryBudget; the loop returns exactly when it reaches 0, and
\* then the last RetryBudget reads added no record.
\* (Stated as claimed; a read without data rows resets the budget, see C30.)
ReadCycle == acc_pc = "loop" /\ acc_pc' \in {"loop", "returned"} /\ nreads' # nreads

TailIsRead(df, read) ==
    /\ df # <<>>
    /\ Len(read) <= Len(df)
    /\ SubSeq(df, Len(df) - Len(read) + 1, Len(df)) = read

C25_State ==
    /\ acc_retries \in 0..RetryBudget
    /\ acc_pc = "loop" => acc_retries > 0
    /\ acc_pc = "returned" => acc_retries = 0 /\ noNew >= RetryBudget

C25_Step ==
    ReadCycle =>
       acc_retries' = IF TailIsRead(acc_df, NewDf(acc_new')) THEN acc_retries - 1
                                                             ELSE RetryBudget

C25_RetryBudget == [](C25_State) /\ [][C25_Step]_vars

\* C30: if from some point on every read returns zero data rows (only the
\* header row is rendered, or every attempt of the read was stale), the
\* accumulator still terminates: such a read counts as a stalled read and
\* does not reset the retry budget.
\* (Stated as claimed; df.iloc[-0:] is the whole frame, so such a read is
\* never a stalled read and the budget goes back to RetryBudget.)
C30_TerminatesOnEmptyReads ==
    <>[](nreads > 0 /\ NewDf(acc_new) = <<>>) => <>(acc_pc # "loop")

\* C26: a visible-row read makes at most ReadRetries attempts, each with row
\* handles fetched anew; a stale attempt is retried; the first attempt that
\* completes returns its rows without the row at index 0; any other exception
\* leaves the read at once, without a retry; when every attempt was stale the
\* read returns no row list (None).
C26_State ==
    LET attempts == Len(ev_fetched)
    IN  /\ attempts <= ReadRetries
        /\ ev_pc = "loop" => ev_retries = ReadRetries - attempts /\ ev_retries > 0
        /\ ev_pc = "raised" <=> ev_exc = "other"
        /\ ev_pc = "raised" => ev_retries = ReadRetries - (attempts - 1)
        /\ ev_pc = "returned" =>
              /\ ev_ret = ExtractVisibleRows(ReadRetries - ev_retries, ev_fetched[attempts])
              /\ IF ev_retries = 0
                 THEN attempts = ReadRetries /\ ev_ret = NoneRows /\ ev_exc = "stale"
                 ELSE /\ ev_retries = ReadRetries - (attempts - 1)
                      /\ ev_ret = DropFirst(ev_fetched[attempts])
                      /\ ev_exc = "none"

C26_Step ==
    /\ ev_pc # "loop" => UNCHANGED readVars
    /\ ev_fetched' # ev_fetched =>
          /\ Len(ev_fetched') = Len(ev_fetched) + 1
          /\ IsPrefix(ev_fetched, ev_fetched')
          /\ ev_retries' \in {ev_retries, ev_retries - 1}
          /\ ev_pc' = "loop" => ev_retries' = ev_retries - 1 /\ ev_exc' = "stale"
          /\ ev_pc' = "raised" => ev_retries' = ev_retries /\ ev_ret' = ev_ret

C26_ReadRetriesOnStale == [](C26_State) /\ [][C26_Step]_vars

C26_Witness ==
    /\ ev_pc = "returned"
    /\ Len(ev_fetched) = ReadRetries
    /\ ev_retries = 1
    /\ ev_ret = <<1>>

\* C27: a legitimate empty result is a skip and not an error: a unit with
\* zero visible rows after filtering does not pass through the error
\* reporting path of the unit-fatal exceptions (the handler of the worker).
\* (Stated as claimed; the skip is raised as an Exception and is logged by
\* the same handler, at error level.)
C27_EmptySkipNotAnError ==
    \A w \in Workers : wvis[w] = "empty" => wexc[w] = "none"

\* C29: for every finite dropdown with at least one option
\* get_all_dropdown_options terminates and returns the sorted, duplicate-free
\* list of all option labels seen, 'Select all' left out; its budget starts
\* at OptionRetries, goes down by one on each read after which the number of
\* distinct labels did not grow, and is never reset.
\* (Stated as claimed; current_options[-3] raises IndexError while fewer
\* than three labels have been seen.)
C29_State ==
    /\ op_retries \in 0..OptionRetries
    /\ op_reads <= NumOptions + OptionRetries
    /\ op_exc # "IndexError"
    /\ op_pc = "returned" =>
          /\ op_retries = 0
          /\ Range(op_ret) = op_all
          /\ SelectAll \notin Range(op_ret)
          /\ \A i, j \in 1..Len(op_ret) : i < j => op_ret[i] < op_ret[j]

C29_Step ==
    op_reads' # op_reads =>
       op_retries' = IF Cardinality(op_all') = Cardinality(op_all) THEN op_retries - 1
                                                                   ELSE op_retries

C29_AllOptionsReturned == [](C29_State) /\ [][C29_Step]_vars

\* C28: whatever units failed, the run of the discovery ends with the merged
\* mapping written, holding exactly one entry per declared state; a state
\* whose unit raised maps to the empty list, its session is closed and its
\* Progress entry is incremented once, and the district scrape schedules no
\* unit for it.
\* (Stated as claimed; an exception of webdriver.Chrome is outside the try
\* block and ends the run before the mapping is written, see C3.)
C28_MappingCoversEveryState ==
    /\ gmain # "aborted"
    /\ gmain = "done" =>
          /\ DOMAIN pkl = Range(states_g)
          /\ \A st \in Range(states_g) :
                graised[st] =>
                   /\ pkl[st] = <<>>
                   /\ \A i \in 1..Len(TasksFrom(pkl, NumStates)) :
                         TasksFrom(pkl, NumStates)[i][1] # st
    /\ \A st \in Range(states_g) :
          /\ st \in DOMAIN gprog => gprog[st] <= 1
          /\ (graised[st] /\ gresults[st] # NotYet) =>
                gsession[st] = "closed" /\ gprog[st] = 1 /\ gresults[st] = <<>>

\* C31: the accumulator terminates on a static table even when the visible
\* window holds two or more fully identical data rows: when every read
\* returns the same window and that window lists a record more than once,
\* every read after the first is recognised as a stalled read (the budget is
\* below RetryBudget from the second read on) and the call has left its loop
\* once RetryBudget + 1 reads are made.
\* (Stated as claimed; the frame holds the record once, so df.iloc[-K:] never
\* equals the K rows of the read and the budget goes back to RetryBudget.)
C31_TerminatesOnRepeatedRows ==
    (static /\ nreads >= 2 /\ ~NoDuplicates(win0)) =>
        /\ acc_retries < RetryBudget
        /\ nreads > RetryBudget + 1 => acc_pc # "loop"

\* C32: when an exception is raised inside the accumulation loop, scrape_data
\* returns no RowSet (None, the frame accumulated so far is dropped), no
\* output file is written for the unit, the unit ends Failed, its session is
\* closed and its Progress entry goes from 0 to 1 when the call returns.
C32_State ==
    /\ \A w \in Workers :
         wscrape_exc[w] =>
            /\ wpc[w] \in {"post", "quit", "lock", "inc"}
            /\ wpc[w] = "post" => wdf[w] = NoneRows
            /\ wpc[w] # "post" =>
                  /\ wdf[w] = <<>>
                  /\ wexc[w] = "post"
                  /\ status[wtask[w]] = "Failed"
            /\ wpc[w] \in {"lock", "inc"} => session[wtask[w]] = "closed"
            /\ OutputPath(wtask[w]) \notin DOMAIN files
            /\ progress[ProgressKey(wtask[w])] = 0
    /\ \A u \in Units : status[u] = "Failed" => OutputPath(u) \notin DOMAIN files

C32_Step ==
    \A w \in Workers :
       (wscrape_exc[w] /\ ~wscrape_exc'[w]) =>
          /\ progress'[ProgressKey(wtask[w])] = 1
          /\ session'[wtask[w]] = "closed"
          /\ status'[wtask[w]] = "Failed"
          /\ result'[wtask[w]] = "returned"
          /\ OutputPath(wtask[w]) \notin DOMAIN files'

C33_FileOnlyUnderOwnFilters ==
    (fl_task # NoTask /\ OutputPath(fl_task) \in DOMAIN fl_files) =>
        /\ fl_slicer = [f \in Slicers |->
                          IF f = "STATE_NAME" THEN fl_task[1]
                          ELSE IF f = "CATEGORY" THEN fl_task[2] ELSE fl_task[3]]
        /\ \A i \in 1..Len(fl_files[OutputPath(fl_task)]) :
              fl_files[OutputPath(fl_task)][i][1] = fl_task

\* C34: folder bootstrapping is safe under concurrency: a call of
\* create_folder_if_not_exists never raises, whatever a sibling worker does
\* to the same folder meanwhile, so a unit that finished accumulation (its
\* frame has been compared) and has ended has its RowSet persisted.
\* (Stated as claimed; the folder can appear between the test of line 49 and
\* os.makedirs of line 50, which then raises FileExistsError.)
C34_FolderBootstrapSafe ==
    /\ \A w \in Workers : dexc[w] # "makedirs"
    /\ \A u \in DistUnits :
         (dmis[u] # "unknown" /\ Finished_d(u)) =>
             OutputPath_d(TaskOfKey_d(u)) \in DOMAIN dout

\* C35: the Progress increment does not depend on teardown succeeding: a unit
\* whose driver.quit() raised in the cleanup block still has its entry
\* incremented once, and when every unit that got a session has ended the
\* Progress sum is the total (the monitor can reach it).
\* (Stated as claimed; the increment comes after driver.quit() in the same
\* finally block and is skipped when driver.quit() raises.)
C35_IncrementDespiteQuitRaising ==
    /\ \A u \in Units :
         (result[u] = "raised" /\ session[u] # "none") =>
             u \in DOMAIN progress /\ progress[u] = 1
    /\ (\A u \in Units : Finished(u) /\ session[u] # "none") =>
          ProgressSum = total_tasks

\* C36: a unit's Progress entry becomes 1 only after its session has been
\* closed and after its output file, if it has one, has been written; so
\* when the monitor finds the Progress sum equal to the total, no session is
\* open and the file of every Succeeded unit exists.
C36_State ==
    /\ \A u \in Units :
         (u \in DOMAIN progress /\ progress[u] >= 1) =>
            /\ session[u] = "closed"
            /\ status[u] = "Succeeded" => OutputPath(u) \in DOMAIN files
    /\ (mon_pc # "off" /\ ProgressSum = total_tasks) =>
          /\ OpenSessions = {}
          /\ \A u \in Units : status[u] \notin {"Pending", "Running"}
          /\ \A u \in Units : status[u] = "Succeeded" => OutputPath(u) \in DOMAIN files

C36_Step ==
    \A u \in DOMAIN progress :
       (u \in DOMAIN progress' /\ progress'[u] # progress[u]) =>
          /\ session[u] = "closed"
          /\ status[u] = "Succeeded" => OutputPath(u) \in DOMAIN files
          /\ UNCHANGED <<session, status, files>>

C36_ProgressAfterTeardownAndWrite == [](C36_State) /\ [][C36_Step]_vars

C36_Witness ==
    /\ mon_pc = "closed"
    /\ ProgressSum = total_tasks
    /\ total_tasks = NumStates * NumCategories
    /\ \E u \in Units : status[u] = "Succeeded" /\ OutputPath(u) \in DOMAIN files
    /\ \E u \in Units : status[u] = "Failed"
    /\ \A u \in Units : session[u] = "closed"

\* C37: for every target the key a worker increments in its cleanup block is
\* one of the keys the scheduler seeded, that of its own task: no increment
\* raises KeyError, a step that changes the map changes the entry of the key
\* of the task that ends in that step and nothing else, no two dispatched
\* tasks have the same key, and once every task has ended every seeded entry
\* is 1.
C37_State ==
    /\ kerr = "none"
    /\ \A w \in Workers : ktask[w] # NoTask => KeyOf(kmain, ktask[w]) \in DOMAIN kprog
    /\ kmain # "start" =>
          /\ DOMAIN kprog = DOMAIN SeedOf(kmain)
          /\ \A i, j \in 1..Len(TasksOf(kmain)) :
                KeyOf(kmain, TasksOf(kmain)[i]) = KeyOf(kmain, TasksOf(kmain)[j]) => i = j
          /\ \A k \in DOMAIN kprog : kprog[k] <= 1
          /\ (kqueue = <<>> /\ \A w \in Workers : ktask[w] = NoTask) =>
                \A k \in DOMAIN kprog : kprog[k] = 1

C37_Step ==
    (kmain # "start" /\ kprog' # kprog) =>
       \E w \in Workers :
          /\ kpc[w] = "finally"
          /\ ktask'[w] = NoTask
          /\ kprog' = [kprog EXCEPT ![KeyOf(kmain, ktask[w])] = @ + 1]

C37_IncrementedKeyIsSeeded == [](C37_State) /\ [][C37_Step]_vars

C37_Witness ==
    /\ kmain = "districts"
    /\ kqueue = <<>>
    /\ \A w \in Workers : ktask[w] = NoTask
    /\ Cardinality(DOMAIN kprog) >= 2
    /\ \A k \in DOMAIN kprog : kprog[k] = 1

=============================================================================
